---------------------------- MODULE Spec2Model ----------------------------
(***************************************************************************)
(* A model of the Rant virtual machine (src/src/runtime/mod.rs) together   *)
(* with the language types it evaluates (src/src/lang.rs) and the value    *)
(* operations it relies on (src/src/value.rs).                             *)
(*                                                                         *)
(* The VM is modelled at the granularity of one intent handler or one      *)
(* sequence element per step; `pc` says where the run loop stands.         *)
(***************************************************************************)
EXTENDS Integers, Sequences, FiniteSets, TLC

VARIABLES
  pc,          \* position of run_inner / tick: "init" "run" "intents" "seq" "err" "ok" "fail"
  prog,        \* index of the program being run (the root sequence)
  call_stack,  \* VM::call_stack, bottom first
  val_stack,   \* VM::val_stack, bottom first
  block_stack, \* Resolver block stack, bottom first
  attr_stack,  \* Resolver attribute stack, bottom first
  unwinds,     \* VM::unwinds
  globals,     \* the engine's global variables
  cells,       \* the shared cells of by-reference variables (RantVar::ByRef), by index
  err,         \* the error a failed tick returned ("" when none)
  tick0,       \* call stack length at entry to the current tick
  parser,      \* the compiler's RantParser: its variable stack, capture stack and reports
  step,        \* the handler the last step ran (history, read by the properties only)
  ev           \* what the last step did (history, read by the properties only)

vars == <<pc, prog, call_stack, val_stack, block_stack, attr_stack, unwinds, globals, cells, err,
          tick0, parser, step, ev>>

-----------------------------------------------------------------------------
(* Bounds of the model *)

\* Stand-in for MAX_STACK_SIZE (20000 in the source): the same comparisons, a reachable limit.
MAX_STACK_SIZE == 7

\* Largest repeat count a repeater attribute takes.

-----------------------------------------------------------------------------
(* Values (RantValue).  Every value has the same five fields. *)

\* RantFunction; NoFn fills the field of a value that is no function
NoFn == [body |-> <<>>, native |-> "", captured_vars |-> <<>>, min_arg_count |-> 0,
         vararg_start_index |-> 0, params |-> <<>>, flavor |-> ""]

VInt(n)    == [t |-> "int",   n |-> n, s |-> "", items |-> <<>>, f |-> NoFn]
VBool(b)   == [t |-> "bool",  n |-> IF b THEN 1 ELSE 0, s |-> "", items |-> <<>>, f |-> NoFn]
VFloat(n)  == [t |-> "float", n |-> n, s |-> "", items |-> <<>>, f |-> NoFn]
VStr(s)    == [t |-> "str",   n |-> 0, s |-> s, items |-> <<>>, f |-> NoFn]
VEmpty     == [t |-> "empty", n |-> 0, s |-> "", items |-> <<>>, f |-> NoFn]
VList(xs)  == [t |-> "list",  n |-> 0, s |-> "", items |-> xs, f |-> NoFn]
\* a map is its list of entries, each entry a value tagged with its key
VEntry(k, v) == [t |-> "entry", n |-> 0, s |-> k, items |-> <<v>>, f |-> NoFn]
VMap(es)   == [t |-> "map",   n |-> 0, s |-> "", items |-> es, f |-> NoFn]
VFunc(fn)  == [t |-> "func",  n |-> 0, s |-> "", items |-> <<>>, f |-> fn]
\* several values written to one output buffer, rendered together
VCat(xs)   == [t |-> "cat",   n |-> 0, s |-> "", items |-> xs, f |-> NoFn]

Last(sq)  == sq[Len(sq)]
Front(sq) == SubSeq(sq, 1, Len(sq) - 1)
Reverse(sq) == [i \in 1..Len(sq) |-> sq[Len(sq) + 1 - i]]


IntStr(n) == CASE n = 0 -> "0" [] n = 1 -> "1" [] n = 2 -> "2" [] n = 3 -> "3"
               [] n = -1 -> "-1" [] n = -2 -> "-2" [] OTHER -> "n"

\* Display for RantValue, as far as keys need it
to_string(v) ==
  CASE v.t = "str"   -> v.s
    [] v.t = "int"   -> IntStr(v.n)
    [] v.t = "bool"  -> IF v.n = 1 THEN "true" ELSE "false"
    [] v.t = "empty" -> ""
    [] OTHER         -> v.t

-----------------------------------------------------------------------------
(* The machine: the VM's fields as one record, so that a handler is an      *)
(* operator from machine to machine.  `err` is the pending RuntimeError of  *)
(* the handler under way; every operation leaves a failed machine alone,    *)
(* which is how `?` and runtime_error! cut a handler short.                 *)

Machine == [cs |-> call_stack, vs |-> val_stack, bs |-> block_stack, at |-> attr_stack,
            uw |-> unwinds, gl |-> globals, hp |-> cells, err |-> "", ev |-> [op |-> "none"],
            ret |-> FALSE]

Ok(m) == m.err = ""

runtime_error(m, e) == IF Ok(m) THEN [m EXCEPT !.err = e] ELSE m

Log(m, e) == IF Ok(m) THEN [m EXCEPT !.ev = e] ELSE m

\* `return Ok(true)`: the handler ends the tick
Ret(m) == [m EXCEPT !.ret = TRUE]

-----------------------------------------------------------------------------
(* Call stack and frames *)

StackFrame(seq, use_output, flavor, bdepth) ==
  [seq |-> seq, pos |-> 0, intents |-> <<>>, flavor |-> flavor,
   has_out |-> use_output, out |-> <<>>, locals |-> <<>>, bdepth |-> bdepth]

Depth(m) == Len(m.cs)

cur_frame(m) == m.cs[Len(m.cs)]

SetTop(m, f) == IF Ok(m) /\ m.cs # <<>> THEN [m EXCEPT !.cs[Len(m.cs)] = f] ELSE m

push_intent_front(m, i) ==
  IF Ok(m) /\ m.cs # <<>>
  THEN [m EXCEPT !.cs[Len(m.cs)].intents = <<i>> \o @]
  ELSE m

\* the intent take_intent removes, and the frame without it
take_intent(m) == [m EXCEPT !.cs[Len(m.cs)].intents = Tail(@)]

\* OutputWriter::render_value
render_value(out) ==
  IF out = <<>> THEN VEmpty ELSE IF Len(out) = 1 THEN out[1] ELSE VCat(out)

\* StackFrame::write_value / write_frag / write_ws: a frame without output drops the value
write_value(m, v) ==
  IF Ok(m) /\ m.cs # <<>> /\ cur_frame(m).has_out
  THEN [m EXCEPT !.cs[Len(m.cs)].out = Append(@, v)]
  ELSE m

\* Scans the stack from the top for the nearest frame of the flavor; 0 when there is none,
\* else 1 + the number of frames above it.
RECURSIVE TasteFrom(_, _, _)
TasteFrom(cs, i, flavor) ==
  IF i = 0 THEN 0
  ELSE IF cs[i].flavor = flavor THEN Len(cs) - i + 1
  ELSE TasteFrom(cs, i - 1, flavor)

taste_for_first(m, flavor) == TasteFrom(m.cs, Len(m.cs), flavor)

-----------------------------------------------------------------------------
(* Value stack *)

push_val(m, v) ==
  IF ~Ok(m) THEN m
  ELSE IF Len(m.vs) < MAX_STACK_SIZE
       THEN [m EXCEPT !.vs = Append(@, v)]
       ELSE runtime_error(m, "StackOverflow")

\* the value pop_val returns (Empty stands for "nothing", which pop_val reports as an error)
top_val(m) == IF m.vs = <<>> THEN VEmpty ELSE Last(m.vs)

pop_val(m) ==
  IF ~Ok(m) THEN m
  ELSE IF m.vs # <<>>
       THEN [m EXCEPT !.vs = Front(@)]
       ELSE runtime_error(m, "StackUnderflow")

\* n pops in a row: the values in pop order, and the machine afterwards
PoppedVals(m, n) ==
  [i \in 1..(IF n <= Len(m.vs) THEN n ELSE Len(m.vs)) |-> m.vs[Len(m.vs) + 1 - i]]

pop_vals(m, n) ==
  IF ~Ok(m) THEN m
  ELSE IF n <= Len(m.vs)
       THEN [m EXCEPT !.vs = SubSeq(@, 1, Len(@) - n)]
       ELSE runtime_error([m EXCEPT !.vs = <<>>], "StackUnderflow")

-----------------------------------------------------------------------------
(* Frames: push and pop *)

pop_frame(m) ==
  IF ~Ok(m) THEN m
  ELSE IF m.cs # <<>>
       THEN [m EXCEPT !.cs = Front(@)]
       ELSE runtime_error(m, "StackUnderflow")

push_frame_unchecked(m, callee, use_output, flavor) ==
  IF ~Ok(m) THEN m
  ELSE [m EXCEPT !.cs = Append(@, StackFrame(callee, use_output, flavor, Len(m.bs)))]

\* push_frame_flavored without the overflow check
push_frame_flavored_unchecked(m, callee, use_output, flavor) ==
  IF ~Ok(m) THEN m
  ELSE [m EXCEPT !.cs = Append(@, StackFrame(callee, use_output, flavor, Len(m.bs)))]

push_frame_flavored(m, callee, use_output, flavor) ==
  IF ~Ok(m) THEN m
  ELSE IF Len(m.cs) >= MAX_STACK_SIZE
       THEN runtime_error(m, "StackOverflow")
       ELSE [m EXCEPT !.cs = Append(@, StackFrame(callee, use_output, flavor, Len(m.bs)))]

push_frame(m, callee, use_output) ==
  IF ~Ok(m) THEN m
  ELSE IF Len(m.cs) >= MAX_STACK_SIZE
       THEN runtime_error(m, "StackOverflow")
       ELSE [m EXCEPT !.cs = Append(@, StackFrame(callee, use_output, "Original", Len(m.bs)))]

\* a frame without a sequence, holding the single intent RuntimeCall
push_native_call_frame(m, callee, use_output, flavor) ==
  IF ~Ok(m) THEN m
  ELSE IF Len(m.cs) >= MAX_STACK_SIZE
       THEN runtime_error(m, "StackOverflow")
       ELSE [m EXCEPT !.cs = Append(@,
              [StackFrame(<<>>, use_output, flavor, Len(m.bs)) EXCEPT
                 !.intents = <<[k |-> "RuntimeCall", function |-> callee, interrupt |-> TRUE]>>])]

-----------------------------------------------------------------------------
(* Variables.  A scope is a list of entries; the last entry of a name wins. *)
(* An access kind is Local, ExplicitGlobal or Descope(n).                   *)

Local          == [k |-> "Local", n |-> 0]
ExplicitGlobal == [k |-> "ExplicitGlobal", n |-> 0]
Descope(n)     == [k |-> "Descope", n |-> n]

\* RantVar: by value (ref = 0) or by reference (ref = the index of its shared cell)
VarEntry(name, val, is_const) == [name |-> name, val |-> val, const |-> is_const, ref |-> 0]

\* RantVar::value_cloned
ValueOf(m, e) == IF e.ref # 0 THEN m.hp[e.ref] ELSE e.val

RECURSIVE FindVar(_, _, _)
FindVar(scope, i, name) ==
  IF i = 0 THEN 0 ELSE IF scope[i].name = name THEN i ELSE FindVar(scope, i - 1, name)

HasVar(scope, name) == FindVar(scope, Len(scope), name) # 0
VarOf(scope, name)  == scope[FindVar(scope, Len(scope), name)]

\* the frame a lookup of this kind starts at (0: the globals)
StartFrame(m, kind) ==
  CASE kind.k = "Local"          -> Len(m.cs)
    [] kind.k = "ExplicitGlobal" -> 0
    [] OTHER -> IF Len(m.cs) > kind.n THEN Len(m.cs) - kind.n ELSE 0

\* the nearest frame at or below i that defines the name (0: none, look in the globals)
RECURSIVE FrameOf(_, _, _)
FrameOf(cs, i, name) ==
  IF i = 0 THEN 0 ELSE IF HasVar(cs[i].locals, name) THEN i ELSE FrameOf(cs, i - 1, name)

RECURSIVE FuncFrameOf(_, _, _)
FuncFrameOf(m, i, name) ==
  IF i = 0 THEN 0
  ELSE IF HasVar(m.cs[i].locals, name) /\ ValueOf(m, VarOf(m.cs[i].locals, name)).t = "func" THEN i
  ELSE FuncFrameOf(m, i - 1, name)

VarDefined(m, name, kind) ==
  FrameOf(m.cs, StartFrame(m, kind), name) # 0 \/ HasVar(m.gl, name)

\* CallStack::get_var_value (the value; VarDefined says whether there is one)
var_value(m, name, kind, prefer_function) ==
  LET s  == StartFrame(m, kind)
      ff == IF prefer_function THEN FuncFrameOf(m, s, name) ELSE 0
      i  == IF ff # 0 THEN ff ELSE FrameOf(m.cs, s, name)
  IN IF i # 0 THEN ValueOf(m, VarOf(m.cs[i].locals, name))
     ELSE IF HasVar(m.gl, name) THEN ValueOf(m, VarOf(m.gl, name))
     ELSE VEmpty

get_var_depth(m, name, kind) ==
  LET i == FrameOf(m.cs, StartFrame(m, kind), name)
  IN IF i # 0 THEN Len(m.cs) - i ELSE Len(m.cs)

\* CallStack::def_var_value: defines in the scope the kind names
def_var_value(m, name, kind, val, is_const) ==
  IF ~Ok(m) THEN m
  ELSE LET i == StartFrame(m, kind)
           scope == IF i = 0 THEN m.gl ELSE m.cs[i].locals
       IN IF HasVar(scope, name) /\ VarOf(scope, name).const
          THEN runtime_error(m, "InvalidOperation")
          ELSE IF i = 0
               THEN [m EXCEPT !.gl = Append(@, VarEntry(name, val, is_const))]
               ELSE [m EXCEPT !.cs[i].locals = Append(@, VarEntry(name, val, is_const))]

\* CallStack::set_var_value: writes the nearest definition
set_var_value(m, name, kind, val) ==
  IF ~Ok(m) THEN m
  ELSE LET i == FrameOf(m.cs, StartFrame(m, kind), name)
           scope == IF i = 0 THEN m.gl ELSE m.cs[i].locals
       IN IF ~HasVar(scope, name) THEN runtime_error(m, "InvalidAccess")
          ELSE IF VarOf(scope, name).const THEN runtime_error(m, "InvalidOperation")
          \* RantVar::write: a by-reference variable is written through its cell
          ELSE IF VarOf(scope, name).ref # 0
               THEN [m EXCEPT !.hp[VarOf(scope, name).ref] = val]
          ELSE IF i = 0
               THEN [m EXCEPT !.gl = Append(@, VarEntry(name, val, FALSE))]
               ELSE [m EXCEPT !.cs[i].locals = Append(@, VarEntry(name, val, FALSE))]

-----------------------------------------------------------------------------
(* Resolver: block stack and attribute stack *)

\* reps = 0 is "once" (no repeater); sep and pipe are Empty when unset
DefaultAttrs == [reps |-> 0, sep |-> VEmpty, pipe |-> VEmpty]

BlockState(block, attrs, flag) ==
  [elems |-> block.elems, flag |-> flag, reps |-> attrs.reps, sep |-> attrs.sep,
   pipe |-> attrs.pipe, iter |-> 0, sep_due |-> FALSE, stopped |-> FALSE, id |-> block.id]

is_repeater(state) == state.reps > 0

block_stack_len(m) == Len(m.bs)
count_attrs(m)     == Len(m.at)

\* Resolver::push_block: consumes the attributes on top of the attribute stack
resolver_push_block(m, block, flag) ==
  IF ~Ok(m) THEN m
  ELSE [m EXCEPT !.bs = Append(@, BlockState(block, Last(m.at), flag)),
                 !.at[Len(m.at)] = DefaultAttrs]

pop_block(m) == IF Ok(m) /\ m.bs # <<>> THEN [m EXCEPT !.bs = Front(@)] ELSE m
pop_attrs(m) == IF Ok(m) /\ m.at # <<>> THEN [m EXCEPT !.at = Front(@)] ELSE m

\* index of the topmost repeater on the block stack (0: none)
RECURSIVE RepeaterFrom(_, _)
RepeaterFrom(bs, i) ==
  IF i = 0 THEN 0 ELSE IF is_repeater(bs[i]) THEN i ELSE RepeaterFrom(bs, i - 1)

active_repeater(m) == RepeaterFrom(m.bs, Len(m.bs))

force_stop(m) ==
  IF Ok(m) /\ active_repeater(m) # 0
  THEN [m EXCEPT !.bs[active_repeater(m)].stopped = TRUE]
  ELSE m

\* BlockState::next_element: what the active block does next, `pick` being the element
\* the RNG selects.  "None" when the block is done.
TotalIters(state) == IF is_repeater(state) THEN state.reps ELSE 1

NextAction(state, pick) ==
  IF state.stopped \/ state.elems = <<>> \/ state.iter >= TotalIters(state) THEN "None"
  ELSE IF state.sep_due THEN "Separator"
  ELSE IF state.pipe.t = "func" THEN "PipedElement"
  ELSE "Element"

\* the block state after next_element returned an element or a separator
Advance(state) ==
  IF state.sep_due THEN [state EXCEPT !.sep_due = FALSE]
  ELSE [state EXCEPT !.iter = @ + 1,
                     !.sep_due = (state.sep.t # "empty" /\ state.iter + 1 < TotalIters(state))]

\* an element sequence as a function value, flavored as the block's elements are
ElemFunc(seq, flavor) ==
  VFunc([NoFn EXCEPT !.body = seq, !.flavor = flavor])

-----------------------------------------------------------------------------
(* Control flow: return, break, continue *)

IsElementFlavor(flavor) == flavor \in {"RepeaterElement", "BlockElement"}

\* Pops k frames; a popped frame's output goes to the frame below it, the last popped
\* frame's output to the value stack.  With pop_blocks, a popped element frame takes its
\* block state with it.
RECURSIVE PopFramesWithOutput(_, _, _)
PopFramesWithOutput(m, k, pop_blocks) ==
  IF k = 0 \/ ~Ok(m) THEN m
  ELSE IF m.cs = <<>> THEN runtime_error(m, "StackUnderflow")
  ELSE LET old_frame == cur_frame(m)
           m1 == pop_frame(m)
           m2 == IF pop_blocks /\ IsElementFlavor(old_frame.flavor) THEN pop_block(m1) ELSE m1
           output == render_value(old_frame.out)
           m3 == IF ~old_frame.has_out THEN m2
                 ELSE IF k > 1 THEN write_value(m2, output)
                 ELSE push_val(m2, output)
       IN PopFramesWithOutput(m3, k - 1, pop_blocks)

RECURSIVE PopFrames(_, _)
PopFrames(m, k) == IF k = 0 \/ ~Ok(m) THEN m ELSE PopFrames(pop_frame(m), k - 1)

func_return_popping(m, ret_val) ==
  IF ~Ok(m) THEN m
  ELSE LET n == taste_for_first(m, "FunctionBody")
       IN IF n = 0 THEN runtime_error(PopFramesWithOutput(m, Len(m.cs), TRUE), "ControlFlowError")
          ELSE LET r == IF ret_val # <<>>
                        THEN push_val(PopFrames(m, n), ret_val[1])
                        ELSE PopFramesWithOutput(m, n, TRUE)
               IN Log(r, [op |-> "func_return", with_val |-> ret_val # <<>>,
                          popped |-> SubSeq(m.cs, Len(m.cs) - n + 1, Len(m.cs)),
                          blocks_before |-> Len(m.bs)])

\* VM::func_return; ret_val is <<>> (None) or <<v>> (Some(v))
func_return(m, ret_val) ==
  IF ~Ok(m) THEN m
  ELSE LET n == taste_for_first(m, "FunctionBody")
       IN IF n = 0 THEN runtime_error(m, "ControlFlowError")
          ELSE LET r == IF ret_val # <<>>
                        THEN push_val(PopFrames(m, n), ret_val[1])
                        ELSE PopFramesWithOutput(m, n, TRUE)
               IN Log(r, [op |-> "func_return", with_val |-> ret_val # <<>>,
                          popped |-> SubSeq(m.cs, Len(m.cs) - n + 1, Len(m.cs)),
                          blocks_before |-> Len(m.bs)])

\* pops block states until a repeater is on top; active_block().unwrap() panics on an
\* empty block stack
RECURSIVE PopToRepeater(_)
PopToRepeater(m) ==
  IF ~Ok(m) THEN m
  ELSE IF m.bs = <<>> THEN runtime_error(m, "PANIC")
  ELSE IF is_repeater(Last(m.bs)) THEN m
  ELSE PopToRepeater(pop_block(m))

\* VM::interrupt_repeater; break_val is <<>> (None) or <<v>> (Some(v))
interrupt_repeater(m, break_val, should_continue) ==
  IF ~Ok(m) THEN m
  ELSE LET n == taste_for_first(m, "RepeaterElement")
       IN IF n = 0 THEN runtime_error(m, "ControlFlowError")
          ELSE LET m1 == IF should_continue THEN m
                         ELSE IF active_repeater(m) = 0 THEN runtime_error(m, "PANIC")
                         ELSE force_stop(m)
                   m2 == IF break_val # <<>>
                         THEN push_val(PopFrames(m1, n), break_val[1])
                         ELSE PopFramesWithOutput(m1, n, FALSE)
                   m3 == PopToRepeater(m2)
               IN Log(m3, [op |-> "interrupt_repeater", should_continue |-> should_continue,
                           with_val |-> break_val # <<>>,
                           target |-> m.cs[Len(m.cs) - n + 1],
                           blocks_before |-> m.bs])

-----------------------------------------------------------------------------
(* Function calls *)

is_variadic(func) == func.vararg_start_index < Len(func.params)

IsVariadicVarity(v) == v \in {"VariadicStar", "VariadicPlus"}

Min(a, b) == IF a < b THEN a ELSE b

\* The parameter loop of call_func: binds params[i..] in the callee's frame and collects
\* the defaults still to evaluate as <<expression, parameter index>> pairs.
RECURSIVE BindParams(_, _, _, _, _, _)
BindParams(m, func, i, nonvariadic, vararg, defaults) ==
  IF i > Len(func.params) \/ ~Ok(m) THEN [m |-> m, defaults |-> defaults]
  ELSE LET p == func.params[i]
       IN IF IsVariadicVarity(p.varity)
          THEN BindParams(def_var_value(m, p.name, Local,
                                        IF vararg # <<>> THEN vararg[1] ELSE VEmpty, TRUE),
                          func, i + 1, nonvariadic, <<>>, defaults)
          ELSE IF nonvariadic = <<>> /\ p.varity = "Optional"
          THEN BindParams(m, func, i + 1, nonvariadic, vararg,
                          IF p.has_default THEN Append(defaults, <<p.default, i>>) ELSE defaults)
          ELSE BindParams(def_var_value(m, p.name, Local,
                                        IF nonvariadic # <<>> THEN Head(nonvariadic) ELSE VEmpty, TRUE),
                          func, i + 1,
                          IF nonvariadic # <<>> THEN Tail(nonvariadic) ELSE <<>>, vararg, defaults)

\* VM::call_func
call_func(m, fv, args, flag, override_print) ==
  IF ~Ok(m) THEN m
  ELSE IF m.cs = <<>> THEN runtime_error(m, "PANIC")
  ELSE
  LET func == fv.f
      argc == Len(args)
      is_printing == flag # "Sink"
      m1 == IF is_printing /\ ~override_print
            THEN push_intent_front(m, [k |-> "PrintLast"]) ELSE m
      mismatch == IF is_variadic(func) THEN argc < func.min_arg_count
                  ELSE argc < func.min_arg_count \/ argc > Len(func.params)
  IN IF mismatch THEN runtime_error(m1, "ArgumentMismatch")
     ELSE IF func.native # ""
     THEN Log(push_native_call_frame(m1, [name |-> func.native, args |-> args],
                                     is_printing, "NativeCall"),
              [op |-> "call_func", func |-> fv, args |-> args, flag |-> flag])
     ELSE LET nv == Min(func.vararg_start_index, argc)
              args_nonvariadic == SubSeq(args, 1, nv)
              vararg == IF is_variadic(func) THEN <<VList(SubSeq(args, nv + 1, argc))>> ELSE <<>>
              m2 == push_frame_flavored(m1, func.body, is_printing,
                                        IF func.flavor = "" THEN "FunctionBody" ELSE func.flavor)
              \* "Pass captured vars to the function scope"
              mc == IF Ok(m2) THEN [m2 EXCEPT !.cs[Len(m2.cs)].locals = @ \o func.captured_vars]
                    ELSE m2
              b  == BindParams(mc, func, 1, args_nonvariadic, vararg, <<>>)
              m3 == IF b.defaults # <<>>
                    THEN push_intent_front(b.m, [k |-> "CreateDefaultArgs", context |-> func,
                                                 default_arg_exprs |-> b.defaults, eval_index |-> 0])
                    ELSE b.m
          IN Log(m3, [op |-> "call_func", func |-> fv, args |-> args, flag |-> flag])

-----------------------------------------------------------------------------
(* Unwinding *)

UnwindState(m, handler) ==
  [handler |-> handler, call_stack_size |-> Len(m.cs), value_stack_size |-> Len(m.vs),
   block_stack_size |-> block_stack_len(m), attr_stack_size |-> count_attrs(m)]

\* VM::push_unwind_state; handler is <<>> (None) or <<function value>>
push_unwind_state(m, handler) ==
  IF ~Ok(m) THEN m ELSE [m EXCEPT !.uw = Append(@, UnwindState(m, handler))]

Truncate(sq, n) == IF Len(sq) > n THEN SubSeq(sq, 1, n) ELSE sq

\* unwind that leaves the value stack as the failed tick left it
unwind_keeps_values(m) ==
  LET state == Last(m.uw)
  IN [m EXCEPT !.uw = Front(@),
               !.cs = Truncate(@, state.call_stack_size),
               !.bs = Truncate(@, state.block_stack_size),
               !.at = Truncate(@, state.attr_stack_size)]

\* VM::unwind, on a machine with an unwind state: pops it and truncates the four stacks
unwind(m) ==
  LET state == Last(m.uw)
  IN [m EXCEPT !.uw = Front(@),
               !.cs = Truncate(@, state.call_stack_size),
               !.vs = Truncate(@, state.value_stack_size),
               !.bs = Truncate(@, state.block_stack_size),
               !.at = Truncate(@, state.attr_stack_size)]

-----------------------------------------------------------------------------
(* Value operations the accessors use (value.rs).  A result is a record     *)
(* [e |-> error or "", v |-> value]; a failed index or slice operation also *)
(* carries the kind of its IndexError or SliceError.  A range is modelled   *)
(* by the integers it enumerates; a character of a string is some one-character *)
(* string, a slice of a string is kept as its two bounds.                   *)

Res(v)    == [e |-> "", v |-> v]
ResErr(e) == [e |-> e, v |-> VEmpty]

ResKind(e, kind) == [e |-> e, v |-> VEmpty, kind |-> kind]

\* a range, by the integers it enumerates
VRange(ns) == [t |-> "range", n |-> 0, s |-> "", items |-> [i \in 1..Len(ns) |-> VInt(ns[i])],
               f |-> NoFn]

value_len(v) ==
  CASE v.t = "str"   -> Len(v.s)
    [] v.t = "list"  -> Len(v.items)
    [] v.t = "range" -> Len(v.items)
    [] v.t = "map"   -> Len(v.items)
    [] OTHER         -> 1

is_indexable(v) == v.t \in {"str", "list", "range"}

get_uindex_unresolved(v, index) ==
  IF index < 0 \/ index >= value_len(v) THEN -1 ELSE index

\* RantValue::get_uindex: -1 when out of range
get_uindex(v, index) ==
  LET uindex == IF index < 0 THEN value_len(v) + index ELSE index
  IN IF uindex < 0 \/ uindex >= value_len(v) THEN -1 ELSE uindex

\* RantValue::get_ubound: -1 when out of range
get_ubound(v, index) ==
  LET uindex == IF index < 0 THEN value_len(v) + index ELSE index
  IN IF uindex < 0 \/ uindex > value_len(v) THEN -1 ELSE uindex

\* RantString::grapheme_at: some one-character string
grapheme_at(s, uindex) == VStr("c")

index_get(v, index) ==
  LET uindex == get_uindex(v, index)
  IN IF uindex = -1 THEN ResKind("IndexError", "OutOfRange")
     ELSE CASE v.t = "str" ->
                 IF uindex < Len(v.s) THEN Res(grapheme_at(v.s, uindex))
                 ELSE ResKind("IndexError", "OutOfRange")
            [] v.t \in {"list", "range"} ->
                 IF uindex < Len(v.items) THEN Res(v.items[uindex + 1])
                 ELSE ResKind("IndexError", "OutOfRange")
            [] OTHER -> ResKind("IndexError", "CannotIndexType")

RECURSIVE FindKey(_, _, _)
FindKey(es, i, key) ==
  IF i = 0 THEN 0 ELSE IF es[i].s = key THEN i ELSE FindKey(es, i - 1, key)

key_get(v, key) ==
  IF v.t # "map" THEN ResErr("KeyError")
  ELSE LET i == FindKey(v.items, Len(v.items), key)
       IN IF i = 0 THEN ResErr("KeyError") ELSE Res(v.items[i].items[1])

\* An evaluated slice: [s |-> "Full" | "From" | "To" | "Between", a |-> from, b |-> to]
Slice(s, a, b) == [s |-> s, a |-> a, b |-> b]

\* RantValue::get_uslice: FALSE when a bound is out of range
uslice_ok(v, slice) ==
  /\ slice.s \in {"From", "Between"} => get_ubound(v, slice.a) # -1
  /\ slice.s \in {"To", "Between"}   => get_ubound(v, slice.b) # -1

\* util::minmax
minmax(a, b) == IF a < b THEN <<a, b>> ELSE <<b, a>>

\* list[from..to], which panics when from > to
ListRange(items, from, to) ==
  IF from > to THEN ResErr("PANIC") ELSE Res(VList(SubSeq(items, from + 1, to)))

\* RantString::to_slice and RantRange::sliced, as the bounds put in order
to_slice(v, from, to) ==
  LET lo == IF from = -1 THEN 0 ELSE from
      hi == IF to = -1 THEN value_len(v) ELSE to
  IN IF v.t = "range"
     THEN [v EXCEPT !.items = SubSeq(@, minmax(lo, hi)[1] + 1, minmax(lo, hi)[2])]
     ELSE [VStr("substr") EXCEPT !.items = <<VInt(minmax(lo, hi)[1]), VInt(minmax(lo, hi)[2])>>]

slice_get_unordered(v, slice) ==
  IF ~uslice_ok(v, slice) THEN ResKind("SliceError", "OutOfRange")
  ELSE LET from == get_ubound(v, slice.a)
           to   == get_ubound(v, slice.b)
       IN CASE v.t \in {"str", "range"} ->
                 Res(to_slice(v, IF slice.s \in {"From", "Between"} THEN from ELSE -1,
                               IF slice.s \in {"To", "Between"} THEN to ELSE -1))
            [] v.t = "list" ->
                 CASE slice.s = "Full" -> Res(v)
                   [] slice.s = "To"   -> ListRange(v.items, 0, to)
                   [] slice.s = "From" -> ListRange(v.items, from, Len(v.items))
                   [] OTHER -> ListRange(v.items, from, to)
            [] OTHER -> ResKind("SliceError", "CannotSliceType")

\* RantValue::slice_get
slice_get(v, slice) ==
  IF ~uslice_ok(v, slice) THEN ResKind("SliceError", "OutOfRange")
  ELSE LET from == get_ubound(v, slice.a)
           to   == get_ubound(v, slice.b)
       IN CASE v.t \in {"str", "range"} ->
                 Res(to_slice(v, IF slice.s \in {"From", "Between"} THEN from ELSE -1,
                               IF slice.s \in {"To", "Between"} THEN to ELSE -1))
            [] v.t = "list" ->
                 CASE slice.s = "Full" -> Res(v)
                   [] slice.s = "To"   -> ListRange(v.items, 0, to)
                   [] slice.s = "From" -> ListRange(v.items, from, Len(v.items))
                   [] OTHER -> ListRange(v.items, minmax(from, to)[1], minmax(from, to)[2])
            [] OTHER -> ResKind("SliceError", "CannotSliceType")

\* Vec::splice(from..to, src), which panics when from > to
Splice(items, from, to, src) ==
  IF from > to THEN ResErr("PANIC")
  ELSE Res(VList(SubSeq(items, 1, from) \o src \o SubSeq(items, to + 1, Len(items))))

\* RantValue::slice_set: the list after the write
slice_set(v, slice, val) ==
  IF ~uslice_ok(v, slice) THEN ResKind("SliceError", "OutOfRange")
  ELSE LET from == get_ubound(v, slice.a)
           to   == get_ubound(v, slice.b)
       IN CASE v.t = "list" /\ val.t = "list" ->
                 CASE slice.s = "Full" -> Splice(v.items, 0, Len(v.items), val.items)
                   [] slice.s = "To"   -> Splice(v.items, 0, to, val.items)
                   [] slice.s = "From" -> Splice(v.items, from, Len(v.items), val.items)
                   [] OTHER -> Splice(v.items, minmax(from, to)[1], minmax(from, to)[2],
                                      val.items)
            [] v.t = "list" /\ val.t # "list" -> ResKind("SliceError", "UnsupportedSpliceSource")
            [] OTHER -> ResKind("SliceError", "CannotSetSliceOnType")

\* index_set / key_set / slice_set: the error each gives ("" when the write is made)
index_set_err(v, index) ==
  IF get_uindex(v, index) = -1 THEN "IndexError"
  ELSE IF v.t \in {"list", "map"} THEN "" ELSE "IndexError"

key_set_err(v) == IF v.t = "map" THEN "" ELSE "KeyError"

slice_set_err(v, slice, val) == slice_set(v, slice, val).e

-----------------------------------------------------------------------------
(* Access paths (lang.rs) *)

\* a slice bound: static integer or dynamic expression
Static(i)  == [dyn |-> FALSE, i |-> i, e |-> <<>>]
Dynamic(e) == [dyn |-> TRUE,  i |-> 0, e |-> e]

Name(name)        == [c |-> "Name", name |-> name, i |-> 0, e |-> <<>>, s |-> "", a |-> Static(0), b |-> Static(0)]
Index(i)          == [c |-> "Index", name |-> "", i |-> i, e |-> <<>>, s |-> "", a |-> Static(0), b |-> Static(0)]
DynamicKey(e)     == [c |-> "DynamicKey", name |-> "", i |-> 0, e |-> e, s |-> "", a |-> Static(0), b |-> Static(0)]
AnonymousValue(e) == [c |-> "AnonymousValue", name |-> "", i |-> 0, e |-> e, s |-> "", a |-> Static(0), b |-> Static(0)]
SliceExpr(s, a, b) == [c |-> "Slice", name |-> "", i |-> 0, e |-> <<>>, s |-> s, a |-> a, b |-> b]

AccessPath(path, kind) == [path |-> path, kind |-> kind]

\* the dynamic expressions of one component, in source order
ComponentExprs(comp) ==
  CASE comp.c \in {"DynamicKey", "AnonymousValue"} -> <<comp.e>>
    [] comp.c = "Slice" /\ comp.s = "From" /\ comp.a.dyn -> <<comp.a.e>>
    [] comp.c = "Slice" /\ comp.s = "To" /\ comp.b.dyn   -> <<comp.b.e>>
    [] comp.c = "Slice" /\ comp.s = "Between" ->
         (IF comp.a.dyn THEN <<comp.a.e>> ELSE <<>>) \o (IF comp.b.dyn THEN <<comp.b.e>> ELSE <<>>)
    [] OTHER -> <<>>

RECURSIVE ExprsFrom(_, _)
ExprsFrom(comps, i) ==
  IF i > Len(comps) THEN <<>> ELSE ComponentExprs(comps[i]) \o ExprsFrom(comps, i + 1)

\* AccessPath::dynamic_exprs
dynamic_exprs(path) == ExprsFrom(path.path, 1)

\* a conversion that takes the to-bound of a slice before its from-bound
as_static_slice_to_first(comp, vals) ==
  LET needs_a == comp.s \in {"From", "Between"} /\ comp.a.dyn
      needs_b == comp.s \in {"To", "Between"} /\ comp.b.dyn
      a_at == IF needs_b THEN 2 ELSE 1
      b_at == 1
      a_missing == needs_a /\ Len(vals) < a_at
      a_bad == needs_a /\ ~a_missing /\ vals[a_at].t # "int"
      b_missing == needs_b /\ ~a_missing /\ ~a_bad /\ Len(vals) < b_at
      b_bad == needs_b /\ ~a_missing /\ ~a_bad /\ ~b_missing /\ vals[b_at].t # "int"
      a == IF needs_a /\ ~a_missing /\ ~a_bad THEN vals[a_at].n ELSE comp.a.i
      b == IF needs_b /\ ~a_missing /\ ~a_bad /\ ~b_missing /\ ~b_bad THEN vals[b_at].n ELSE comp.b.i
  IN [slice |-> Slice(comp.s, a, b),
      taken |-> IF a_missing THEN 0
                ELSE IF a_bad THEN 1
                ELSE IF b_missing THEN (IF needs_a THEN 1 ELSE 0)
                ELSE (IF needs_a THEN 1 ELSE 0) + (IF needs_b THEN 1 ELSE 0),
      e |-> IF a_missing \/ b_missing THEN "PANIC"
            ELSE IF a_bad \/ b_bad THEN "SliceError" ELSE ""]

\* SliceExpr::as_static_slice with the callback `dynamic_values.next().unwrap()`:
\* vals are the values not yet taken.  Gives the slice, the values taken, and the error
\* ("PANIC" when next() has nothing left).
as_static_slice(comp, vals) ==
  LET needs_a == comp.s \in {"From", "Between"} /\ comp.a.dyn
      needs_b == comp.s \in {"To", "Between"} /\ comp.b.dyn
      a_at == 1
      b_at == IF needs_a THEN 2 ELSE 1
      a_missing == needs_a /\ Len(vals) < a_at
      a_bad == needs_a /\ ~a_missing /\ vals[a_at].t # "int"
      b_missing == needs_b /\ ~a_missing /\ ~a_bad /\ Len(vals) < b_at
      b_bad == needs_b /\ ~a_missing /\ ~a_bad /\ ~b_missing /\ vals[b_at].t # "int"
      a == IF needs_a /\ ~a_missing /\ ~a_bad THEN vals[a_at].n ELSE comp.a.i
      b == IF needs_b /\ ~a_missing /\ ~a_bad /\ ~b_missing /\ ~b_bad THEN vals[b_at].n ELSE comp.b.i
  IN [slice |-> Slice(comp.s, a, b),
      taken |-> IF a_missing THEN 0
                ELSE IF a_bad THEN 1
                ELSE IF b_missing THEN (IF needs_a THEN 1 ELSE 0)
                ELSE (IF needs_a THEN 1 ELSE 0) + (IF needs_b THEN 1 ELSE 0),
      e |-> IF a_missing \/ b_missing THEN "PANIC"
            ELSE IF a_bad \/ b_bad THEN "SliceError" ELSE ""]

-----------------------------------------------------------------------------
(* Getter and setter *)

LogAlways(m, e) == [m EXCEPT !.ev = e]

\* get_var_value as a result
VarRes(m, name, kind, prefer_function) ==
  IF VarDefined(m, name, kind) THEN Res(var_value(m, name, kind, prefer_function))
  ELSE ResErr("InvalidAccess")

\* The walk of get_value: st is [e, v, vals], vals the dynamic keys not yet taken.
GetSt(r, vals) == [e |-> r.e, v |-> r.v, vals |-> vals]

GetRoot(m, path, vals, prefer_function) ==
  IF path.path = <<>> THEN GetSt(ResErr("PANIC"), vals)
  ELSE LET comp == path.path[1]
       IN CASE comp.c = "Name" ->
                 GetSt(VarRes(m, comp.name, path.kind, prefer_function), vals)
            [] comp.c = "DynamicKey" ->
                 IF vals = <<>> THEN GetSt(ResErr("PANIC"), vals)
                 ELSE GetSt(VarRes(m, to_string(Head(vals)), path.kind, prefer_function),
                            Tail(vals))
            [] comp.c = "AnonymousValue" ->
                 IF vals = <<>> THEN GetSt(ResErr("PANIC"), vals)
                 ELSE GetSt(Res(Head(vals)), Tail(vals))
            [] OTHER -> GetSt(ResErr("PANIC"), vals)

\* a walk whose dynamic key step reads the next dynamic value without taking it
GetStepKeepsKey(st, comp) ==
  LET Sliced(ss, rest) == IF ss.e # "" THEN [e |-> ss.e, v |-> st.v, vals |-> rest]
                          ELSE GetSt(slice_get(st.v, ss.slice), rest)
      Taking(ss) == Sliced(ss, SubSeq(st.vals, ss.taken + 1, Len(st.vals)))
      Keyed(key) == GetSt(IF key.t = "int" THEN index_get(st.v, key.n)
                          ELSE key_get(st.v, to_string(key)),
                          st.vals)
  IN CASE comp.c = "Name"  -> GetSt(key_get(st.v, comp.name), st.vals)
       [] comp.c = "Index" -> GetSt(index_get(st.v, comp.i), st.vals)
       [] comp.c = "DynamicKey" ->
            IF st.vals = <<>> THEN [st EXCEPT !.e = "PANIC"] ELSE Keyed(Head(st.vals))
       [] comp.c = "Slice" -> Taking(as_static_slice(comp, st.vals))
       [] OTHER -> [st EXCEPT !.e = "InvalidOperation"]

GetStep(st, comp) ==
  LET Sliced(ss, rest) == IF ss.e # "" THEN [e |-> ss.e, v |-> st.v, vals |-> rest]
                          ELSE GetSt(slice_get(st.v, ss.slice), rest)
      Taking(ss) == Sliced(ss, SubSeq(st.vals, ss.taken + 1, Len(st.vals)))
      Keyed(key) == GetSt(IF key.t = "int" THEN index_get(st.v, key.n)
                          ELSE key_get(st.v, to_string(key)),
                          Tail(st.vals))
  IN CASE comp.c = "Name"  -> GetSt(key_get(st.v, comp.name), st.vals)
       [] comp.c = "Index" -> GetSt(index_get(st.v, comp.i), st.vals)
       [] comp.c = "DynamicKey" ->
            IF st.vals = <<>> THEN [st EXCEPT !.e = "PANIC"] ELSE Keyed(Head(st.vals))
       [] comp.c = "Slice" -> Taking(as_static_slice(comp, st.vals))
       [] OTHER -> [st EXCEPT !.e = "InvalidOperation"]

RECURSIVE GetWalk(_, _, _)
GetWalk(st, comps, i) ==
  IF i > Len(comps) \/ st.e # "" THEN st ELSE GetWalk(GetStep(st, comps[i]), comps, i + 1)

\* VM::get_value
get_value(m, path, dynamic_key_count, override_print, prefer_function) ==
  LET dynamic_keys == PoppedVals(m, dynamic_key_count)
      Finish(m1, st) ==
        LogAlways(IF st.e # "" THEN runtime_error(m1, st.e)
                  ELSE IF override_print THEN push_val(m1, st.v)
                  ELSE write_value(m1, st.v),
                  [op |-> "get_value", path |-> path, e |-> st.e,
                   popped |-> Len(dynamic_keys),
                   used |-> Len(dynamic_keys) - Len(st.vals),
                   keys |-> dynamic_keys, result |-> st.v])
      Walk(m1) ==
        IF ~Ok(m1) THEN LogAlways(m1, [op |-> "get_value", path |-> path, e |-> m1.err,
                                       popped |-> Len(dynamic_keys), used |-> 0])
        ELSE Finish(m1, GetWalk(GetRoot(m1, path, dynamic_keys,
                                        prefer_function /\ Len(path.path) = 1),
                                path.path, 2))
  IN IF ~Ok(m) THEN m ELSE Walk(pop_vals(m, dynamic_key_count))

\* The walk of set_value: st is [e, has_target, target, key, vals]; key is
\* [k |-> "None" | "Index" | "Slice" | "KeyRef" | "KeyString", i, s, slice].
SetterKey(k, i, s, slice) == [k |-> k, i |-> i, s |-> s, slice |-> slice]
NoSlice == Slice("Full", 0, 0)
NoKey   == SetterKey("None", 0, "", NoSlice)

SetSt(e, has_target, target, key, vals) ==
  [e |-> e, has_target |-> has_target, target |-> target, key |-> key, vals |-> vals]

SetRoot(path, vals) ==
  IF path.path = <<>> THEN SetSt("PANIC", FALSE, VEmpty, NoKey, vals)
  ELSE LET comp == path.path[1]
       IN CASE comp.c = "Name" ->
                 SetSt("", FALSE, VEmpty, SetterKey("KeyRef", 0, comp.name, NoSlice), vals)
            [] comp.c = "DynamicKey" ->
                 IF vals = <<>> THEN SetSt("PANIC", FALSE, VEmpty, NoKey, vals)
                 ELSE SetSt("", FALSE, VEmpty,
                            SetterKey("KeyString", 0, to_string(Head(vals)), NoSlice), Tail(vals))
            [] comp.c = "AnonymousValue" ->
                 IF vals = <<>> THEN SetSt("PANIC", FALSE, VEmpty, NoKey, vals)
                 ELSE SetSt("", TRUE, Head(vals), NoKey, Tail(vals))
            [] OTHER -> SetSt("PANIC", FALSE, VEmpty, NoKey, vals)

\* "Update setter target by keying off setter_key"
SetTarget(m, st, kind) ==
  LET key == st.key
  IN CASE ~st.has_target /\ key.k \in {"KeyRef", "KeyString"} -> VarRes(m, key.s, kind, FALSE)
       [] st.has_target /\ key.k = "None"  -> Res(st.target)
       [] st.has_target /\ key.k = "Index" -> index_get(st.target, key.i)
       [] st.has_target /\ key.k \in {"KeyRef", "KeyString"} -> key_get(st.target, key.s)
       [] st.has_target /\ key.k = "Slice" -> slice_get(st.target, key.slice)
       [] OTHER -> ResErr("PANIC")

SetStep(m, st, comp, kind) ==
  LET Sliced(st1, ss) == [st1 EXCEPT !.e = ss.e,
                                     !.key = SetterKey("Slice", 0, "", ss.slice),
                                     !.vals = SubSeq(st.vals, ss.taken + 1, Len(st.vals))]
      Keyed(st1, kv) == [st1 EXCEPT !.vals = Tail(st.vals),
                                    !.key = IF kv.t = "int"
                                            THEN SetterKey("Index", kv.n, "", NoSlice)
                                            ELSE SetterKey("KeyString", 0, to_string(kv), NoSlice)]
      Next_(st1) ==
        CASE comp.c = "Name" ->
               [st1 EXCEPT !.key = SetterKey("KeyRef", 0, comp.name, NoSlice)]
          [] comp.c = "Index" ->
               [st1 EXCEPT !.key = SetterKey("Index", comp.i, "", NoSlice)]
          [] comp.c = "Slice" -> Sliced(st1, as_static_slice(comp, st.vals))
          [] comp.c = "DynamicKey" ->
               IF st.vals = <<>> THEN [st1 EXCEPT !.e = "PANIC"]
               ELSE Keyed(st1, Head(st.vals))
          [] OTHER -> [st1 EXCEPT !.e = "InvalidOperation"]
      Targeted(t) == IF t.e # "" THEN [st EXCEPT !.e = t.e]
                     ELSE Next_([st EXCEPT !.has_target = TRUE, !.target = t.v])
  IN Targeted(SetTarget(m, st, kind))

RECURSIVE SetWalk(_, _, _, _, _)
SetWalk(m, st, comps, i, kind) ==
  IF i > Len(comps) \/ st.e # "" THEN st
  ELSE SetWalk(m, SetStep(m, st, comps[i], kind), comps, i + 1, kind)

\* def_or_set!
def_or_set(m, write_mode, vname, access_kind, value) ==
  CASE write_mode = "SetOnly" -> set_var_value(m, vname, access_kind, value)
    [] write_mode = "Define"  -> def_var_value(m, vname, access_kind, value, FALSE)
    [] OTHER                  -> def_var_value(m, vname, access_kind, value, TRUE)

\* "Finally, set the value".  A write into a collection goes through the collection's
\* shared handle; the model records it in ev and keeps the error the write gives.
SetFinal(m, st, write_mode, kind, setter_value) ==
  LET key == st.key
  IN CASE ~st.has_target /\ key.k \in {"KeyRef", "KeyString"} ->
            def_or_set(m, write_mode, key.s, kind, setter_value)
       [] st.has_target /\ key.k = "Index" ->
            runtime_error(m, index_set_err(st.target, key.i))
       [] st.has_target /\ key.k \in {"KeyRef", "KeyString"} ->
            runtime_error(m, key_set_err(st.target))
       [] st.has_target /\ key.k = "Slice" ->
            runtime_error(m, slice_set_err(st.target, key.slice, setter_value))
       [] OTHER -> runtime_error(m, "PANIC")

\* VM::set_value
set_value(m, path, write_mode, dynamic_value_count) ==
  LET dynamic_values == PoppedVals(m, dynamic_value_count)
      Event(m3, st, setter_value) ==
        LogAlways(m3, [op |-> "set_value", path |-> path, e |-> m3.err,
                       popped |-> Len(dynamic_values) + 1,
                       used |-> Len(dynamic_values) - Len(st.vals),
                       keys |-> dynamic_values, key |-> st.key,
                       has_target |-> st.has_target, target |-> st.target,
                       value |-> setter_value])
      Finish(m2, st, setter_value) ==
        Event(IF st.e # "" THEN runtime_error(m2, st.e)
              ELSE SetFinal(m2, st, write_mode, path.kind, setter_value),
              st, setter_value)
      Walk(m2, setter_value) ==
        IF ~Ok(m2) THEN LogAlways(m2, [op |-> "set_value", path |-> path, e |-> m2.err,
                                       popped |-> Len(m.vs) - Len(m2.vs), used |-> 0])
        ELSE Finish(m2, SetWalk(m2, SetRoot(path, dynamic_values), path.path, 2, path.kind),
                    setter_value)
      Popped(m1) == Walk(pop_val(m1), top_val(m1))
  IN IF ~Ok(m) THEN m ELSE Popped(pop_vals(m, dynamic_value_count))

-----------------------------------------------------------------------------
(* Blocks *)

\* VM::check_block; pick is the element index the RNG selects
check_block(m, pick) ==
  IF ~Ok(m) \/ m.bs = <<>> THEN m
  ELSE LET state       == Last(m.bs)
           is_rep      == is_repeater(state)
           is_printing == state.flag # "Sink"
           act         == NextAction(state, pick)
           flag        == IF is_printing THEN "Hint" ELSE "Sink"
           m1 == push_intent_front([m EXCEPT !.bs[Len(m.bs)] = Advance(state)],
                                   [k |-> "CheckBlock"])
           m2 == IF is_printing THEN push_intent_front(m1, [k |-> "PrintLast"]) ELSE m1
           flavor == IF is_rep THEN "RepeaterElement" ELSE "BlockElement"
       IN CASE act = "None" -> pop_block(m)
            [] act = "Element" ->
                 push_frame_flavored(m2, state.elems[pick].main, is_printing, flavor)
            [] act = "PipedElement" ->
                 call_func(m2, state.pipe, <<ElemFunc(state.elems[pick].main, flavor)>>, flag, TRUE)
            [] OTHER ->
                 IF state.sep.t = "func"
                 THEN push_intent_front(push_val(m1, state.sep),
                                        [k |-> "Call", argc |-> 0, flag |-> flag,
                                         override_print |-> FALSE])
                 ELSE write_value(m1, state.sep)

\* VM::push_block
push_block(m, block, flag, pick) ==
  check_block(resolver_push_block(m, block, flag), pick)

\* VM::pre_push_block
pre_push_block(m, block, flag, pick) ==
  IF block.is_weighted
  THEN push_intent_front(m, [k |-> "BuildWeightedBlock", block |-> block, weights |-> 0,
                             pop_next_weight |-> FALSE])
  ELSE push_block(m, block, flag, pick)

PIPE_VALUE_NAME == "~PIPE"

\* VM::def_pipeval
def_pipeval(m, pipeval) == def_var_value(m, PIPE_VALUE_NAME, Local, pipeval, TRUE)

\* VM::push_getter_intents; fallback is <<>> (None) or <<sequence>>.  `pushed` counts
\* the frames pushed for the path's dynamic expressions so far.
push_getter_intents(m, path, override_print, prefer_function, fallback) ==
  LET dynamic_keys == dynamic_exprs(path)
  IN push_intent_front(m,
       IF dynamic_keys = <<>>
       THEN [k |-> "GetValue", path |-> path, dynamic_key_count |-> 0,
             override_print |-> override_print, prefer_function |-> prefer_function,
             fallback |-> fallback, pushed |-> 0]
       ELSE [k |-> "BuildDynamicGetter", dynamic_key_count |-> Len(dynamic_keys),
             path |-> path, pending_exprs |-> dynamic_keys,
             override_print |-> override_print, prefer_function |-> prefer_function,
             fallback |-> fallback, pushed |-> 0])

-----------------------------------------------------------------------------
(* Native functions the programs call.  A native is a name; RuntimeCall runs it with  *)
(* the arguments call_func bound.                                                     *)

NativeFn(name, min_args, max_args) ==
  VFunc([NoFn EXCEPT !.native = name, !.min_arg_count = min_args,
                     !.vararg_start_index = max_args,
                     !.params = [i \in 1..max_args |->
                                   [name |-> "a", varity |-> IF i <= min_args THEN "Required" ELSE "Optional",
                                    default |-> <<>>, has_default |-> FALSE]]])

SetAttr(m, field, v) ==
  IF ~Ok(m) \/ m.at = <<>> THEN m
  ELSE CASE field = "reps" -> [m EXCEPT !.at[Len(m.at)].reps = v.n]
         [] field = "sep"  -> [m EXCEPT !.at[Len(m.at)].sep = v]
         [] OTHER          -> [m EXCEPT !.at[Len(m.at)].pipe = v]

\* [try: context; handler?]
try_(m, args) ==
  LET m1 == push_unwind_state(m, IF Len(args) > 1 THEN <<args[2]>> ELSE <<>>)
      m2 == push_intent_front(m1, [k |-> "DropStaleUnwinds"])
  IN call_func(m2, args[1], <<>>, "None", FALSE)

RunNative(m, function) ==
  LET name == function.name
      args == function.args
  IN CASE name = "try"   -> try_(m, args)
       [] name = "error" -> runtime_error(m, "UserError")
       [] name = "rep"   -> SetAttr(m, "reps", args[1])
       [] name = "sep"   -> SetAttr(m, "sep", args[1])
       [] name = "pipe"  -> SetAttr(m, "pipe", args[1])
       [] name = "require" ->
            push_frame_flavored(
              push_intent_front(m, [k |-> "ImportLastAsModule",
                                    module_name |-> to_string(args[1]), descope |-> 1]),
              <<[k |-> "Fragment", s |-> "module"]>>, TRUE, "FunctionBody")
       [] OTHER          -> m

-----------------------------------------------------------------------------
(* Temporal spread (lang.rs) *)

\* arg_labels[i] is the label of argument expression i, -1 when it is not temporal;
\* panic is the out-of-bounds `args[i]`.
RECURSIVE TemporalNew(_, _, _, _)
TemporalNew(arg_exprs, args, i, st) ==
  IF i > Len(arg_exprs) \/ st.panic THEN st
  ELSE LET expr == arg_exprs[i]
       IN IF expr.spread_mode # "Temporal"
          THEN TemporalNew(arg_exprs, args, i + 1, [st EXCEPT !.arg_labels = Append(@, -1)])
          ELSE IF i > Len(args) THEN [st EXCEPT !.panic = TRUE]
          ELSE LET arg == args[i]
                   st1 == [st EXCEPT !.arg_labels = Append(@, expr.label)]
               IN TemporalNew(arg_exprs, args, i + 1,
                    IF expr.label >= Len(st.counters)
                    THEN [st1 EXCEPT !.counters =
                            Append(@, [c |-> 0, n |-> IF is_indexable(arg) THEN value_len(arg) ELSE 0])]
                    ELSE IF is_indexable(arg)
                    THEN [st1 EXCEPT !.counters[expr.label + 1].n = Min(value_len(arg), @)]
                    ELSE st1)

TemporalSpreadState(arg_exprs, args) ==
  TemporalNew(arg_exprs, args, 1, [counters |-> <<>>, arg_labels |-> <<>>, panic |-> FALSE])

temporal_is_empty(st) ==
  st.counters = <<>> \/ \A i \in 1..Len(st.counters) : st.counters[i].n = 0

\* TemporalSpreadState::get, for the 0-based argument index; -1 is None
temporal_get(st, arg_index) ==
  IF arg_index + 1 <= Len(st.arg_labels) /\ st.arg_labels[arg_index + 1] >= 0
  THEN st.counters[st.arg_labels[arg_index + 1] + 1].c
  ELSE -1

RECURSIVE TemporalInc(_, _)
TemporalInc(counters, i) ==
  IF i > Len(counters) THEN [counters |-> counters, success |-> FALSE]
  ELSE IF counters[i].c + 1 >= counters[i].n
       THEN TemporalInc([counters EXCEPT ![i].c = 0], i + 1)
       ELSE [counters |-> [counters EXCEPT ![i].c = @ + 1], success |-> TRUE]

\* an increment that would advance the last counter first
temporal_increment_last_first(st) ==
  LET r == TemporalInc(Reverse(st.counters), 1)
  IN [counters |-> Reverse(r.counters), success |-> r.success]

temporal_increment(st) == TemporalInc(st.counters, 1)

\* the arguments of one temporal call
TemporalArgs(st, args) ==
  [i \in 1..Len(args) |->
     LET tindex == temporal_get(st, i - 1)
     IN IF tindex >= 0 /\ is_indexable(args[i]) /\ index_get(args[i], tindex).e = ""
        THEN index_get(args[i], tindex).v
        ELSE args[i]]

\* "Pop the evaluated args off the stack": one pop per argument expression, a list
\* popped for a parametric spread is spliced in.
RECURSIVE PopArgs(_, _, _, _)
RECURSIVE PopArgsReversed(_, _, _, _)
\* the popped values taken as the arguments in the order they come off the stack reversed
PopArgsReversed(m, arg_exprs, i, args) ==
  IF i > Len(arg_exprs) \/ ~Ok(m) THEN [m |-> m, args |-> args]
  ELSE LET arg == top_val(m)
           m1  == pop_val(m)
       IN IF ~Ok(m1) THEN [m |-> m1, args |-> args]
          ELSE PopArgsReversed(m1, arg_exprs, i + 1,
                               IF arg_exprs[i].spread_mode = "Parametric" /\ arg.t = "list"
                               THEN arg.items \o args ELSE <<arg>> \o args)

PopArgs(m, arg_exprs, i, args) ==
  IF i > Len(arg_exprs) \/ ~Ok(m) THEN [m |-> m, args |-> args]
  ELSE LET arg == top_val(m)
           m1  == pop_val(m)
       IN IF ~Ok(m1) THEN [m |-> m1, args |-> args]
          ELSE PopArgs(m1, arg_exprs, i + 1,
                       IF arg_exprs[i].spread_mode = "Parametric" /\ arg.t = "list"
                       THEN args \o arg.items ELSE Append(args, arg))

\* "Pop the function and make sure it's callable"
PopFunc(m) ==
  LET m1 == pop_val(m)
  IN IF Ok(m1) /\ top_val(m).t # "func" THEN runtime_error(m1, "CannotInvokeValue") ELSE m1

-----------------------------------------------------------------------------
(* tick: one action per intent kind and per node kind.  An action takes the *)
(* handler's result machine back into the variables; pc says where tick     *)
(* goes on: "intents" (the intent loop), "seq" (the sequence loop), "run"   *)
(* (tick returned to run_inner), "err" (tick returned an error).            *)

Commit(m, name, cont) ==
  /\ call_stack' = m.cs
  /\ val_stack' = m.vs
  /\ block_stack' = m.bs
  /\ attr_stack' = m.at
  /\ unwinds' = m.uw
  /\ globals' = m.gl
  /\ cells' = m.hp
  /\ err' = m.err
  /\ ev' = m.ev
  /\ step' = name
  /\ pc' = IF m.err = "PANIC" THEN "panic"
           ELSE IF m.err # "" THEN "err"
           ELSE IF m.ret THEN "run" ELSE cont
  /\ UNCHANGED <<parser, prog, tick0>>

\* the intent take_intent hands to the match, and the machine it leaves
AtIntent(k) ==
  /\ pc = "intents"
  /\ call_stack # <<>>
  /\ cur_frame(Machine).intents # <<>>
  /\ Head(cur_frame(Machine).intents).k = k

Intent == Head(cur_frame(Machine).intents)
Taken  == take_intent(Machine)

PrintLast ==
  /\ AtIntent("PrintLast")
  /\ Commit(write_value(pop_val(Taken), top_val(Taken)), "PrintLast", "intents")

ReturnLast ==
  /\ AtIntent("ReturnLast")
  /\ Commit(Ret(func_return(pop_val(Taken), <<top_val(Taken)>>)), "ReturnLast", "intents")

ContinueLast ==
  /\ AtIntent("ContinueLast")
  /\ Commit(Ret(interrupt_repeater(pop_val(Taken), <<top_val(Taken)>>, TRUE)),
            "ContinueLast", "intents")

BreakLast ==
  /\ AtIntent("BreakLast")
  /\ Commit(Ret(interrupt_repeater(pop_val(Taken), <<top_val(Taken)>>, FALSE)),
            "BreakLast", "intents")

\* the elements the RNG can select in the active block
Picks(m) == IF m.bs = <<>> \/ Last(m.bs).elems = <<>> THEN {1} ELSE 1..Len(Last(m.bs).elems)

CheckBlock ==
  /\ AtIntent("CheckBlock")
  /\ \E pick \in Picks(Taken) : Commit(check_block(Taken, pick), "CheckBlock", "intents")

\* the weight loop of BuildWeightedBlock; w is weights.len()
RECURSIVE BuildWeights(_, _, _, _, _)
BuildWeights(m, block, w, pop_next_weight, pick) ==
  IF ~Ok(m) THEN m
  ELSE IF w >= Len(block.elems) THEN push_block(m, block, block.flag, pick)
  ELSE IF pop_next_weight
  THEN LET weight_value == top_val(m)
           m1 == pop_val(m)
       IN IF Ok(m1) /\ weight_value.t \notin {"int", "float", "bool", "empty"}
          THEN runtime_error(m1, "ArgumentError")
          ELSE BuildWeights(m1, block, w + 1, FALSE, pick)
  ELSE LET weight == block.elems[w + 1].weight
       IN IF weight.w = "Dynamic"
          THEN Ret(push_frame(push_intent_front(m, [k |-> "BuildWeightedBlock", block |-> block,
                                                    weights |-> w, pop_next_weight |-> TRUE]),
                              weight.expr, TRUE))
          ELSE BuildWeights(m, block, w + 1, FALSE, pick)

BuildWeightedBlock ==
  /\ AtIntent("BuildWeightedBlock")
  /\ \E pick \in 1..Len(Intent.block.elems) :
       Commit(BuildWeights(Taken, Intent.block, Intent.weights, Intent.pop_next_weight, pick),
              "BuildWeightedBlock", "intents")

DefVar ==
  /\ AtIntent("DefVar")
  /\ Commit(def_var_value(pop_val(Taken), Intent.vname, Intent.access_kind, top_val(Taken),
                          Intent.is_const),
            "DefVar", "intents")

GetValueIntent(i, pushed) ==
  [k |-> "GetValue", path |-> i.path, dynamic_key_count |-> i.dynamic_key_count,
   override_print |-> i.override_print, prefer_function |-> i.prefer_function,
   fallback |-> i.fallback, pushed |-> pushed]

\* BuildDynamicGetter taking the first pending expression instead of the last
build_dynamic_getter_front(m, i) ==
  IF i.pending_exprs # <<>>
  THEN LET key_expr == Head(i.pending_exprs)
           pending  == Tail(i.pending_exprs)
           n  == IF Len(m.cs) < MAX_STACK_SIZE THEN i.pushed + 1 ELSE i.pushed
           m1 == push_intent_front(m,
                   IF pending = <<>> THEN GetValueIntent(i, n)
                   ELSE [i EXCEPT !.pending_exprs = pending, !.pushed = n])
           m2 == push_frame_flavored(m1, key_expr, TRUE, "DynamicKeyExpression")
       IN Ret(Log(m2, [op |-> "eval_dynamic", expr |-> key_expr, path |-> i.path,
                       index |-> 1, nth |-> i.pushed + 1]))
  ELSE Ret(push_intent_front(m, GetValueIntent(i, i.pushed)))

\* BuildDynamicGetter: pending_exprs.pop() takes the LAST pending expression
build_dynamic_getter(m, i) ==
  IF i.pending_exprs # <<>>
  THEN LET key_expr == Last(i.pending_exprs)
           pending  == Front(i.pending_exprs)
           n  == IF Len(m.cs) < MAX_STACK_SIZE THEN i.pushed + 1 ELSE i.pushed
           m1 == push_intent_front(m,
                   IF pending = <<>> THEN GetValueIntent(i, n)
                   ELSE [i EXCEPT !.pending_exprs = pending, !.pushed = n])
           m2 == push_frame_flavored(m1, key_expr, TRUE, "DynamicKeyExpression")
       IN Ret(Log(m2, [op |-> "eval_dynamic", expr |-> key_expr, path |-> i.path,
                       index |-> Len(i.pending_exprs),
                       nth |-> i.pushed + 1]))
  ELSE Ret(push_intent_front(m, GetValueIntent(i, i.pushed)))

BuildDynamicGetter ==
  /\ AtIntent("BuildDynamicGetter")
  /\ Commit(build_dynamic_getter(Taken, Intent), "BuildDynamicGetter", "intents")

\* a GetValue that would run the fallback without queueing PrintLast
get_value_intent_unprinted(m, i) ==
  LET Event(r) == [r.ev EXCEPT !.op = "get_value"] @@ [pushed |-> i.pushed]
      Fallback(m1, e) == LogAlways(Ret(push_frame(m1, i.fallback[1], TRUE)), e)
      Got(r) == IF Ok(r) \/ i.fallback = <<>> \/ r.err = "PANIC" THEN LogAlways(r, Event(r))
                ELSE Fallback([r EXCEPT !.err = ""], Event(r))
  IN Got(get_value(m, i.path, i.dynamic_key_count, i.override_print, i.prefer_function))

\* GetValue: a failed getter with a fallback drops the error and runs the fallback
get_value_intent(m, i) ==
  LET Event(r) == [r.ev EXCEPT !.op = "get_value"] @@ [pushed |-> i.pushed]
      Fallback(m1, e) ==
        LogAlways(Ret(push_frame(IF ~i.override_print
                                 THEN push_intent_front(m1, [k |-> "PrintLast"])
                                 ELSE m1,
                                 i.fallback[1], TRUE)), e)
      Got(r) == IF Ok(r) \/ i.fallback = <<>> \/ r.err = "PANIC" THEN LogAlways(r, Event(r))
                ELSE Fallback([r EXCEPT !.err = ""], Event(r))
  IN Got(get_value(m, i.path, i.dynamic_key_count, i.override_print, i.prefer_function))

GetValue ==
  /\ AtIntent("GetValue")
  /\ Commit(get_value_intent(Taken, Intent), "GetValue", "intents")

\* a CreateDefaultArgs that would bind each default as an ordinary variable
create_default_args_variable(m, i) ==
  LET m1 == IF i.eval_index > 0
            THEN def_var_value(pop_val(m),
                               i.context.params[i.default_arg_exprs[i.eval_index][2]].name,
                               Local, top_val(m), FALSE)
            ELSE m
  IN IF i.eval_index + 1 <= Len(i.default_arg_exprs)
     THEN Ret(push_frame_flavored(
                push_intent_front(m1, [i EXCEPT !.eval_index = @ + 1]),
                i.default_arg_exprs[i.eval_index + 1][1], TRUE, "ArgumentExpression"))
     ELSE m1

\* CreateDefaultArgs: binds the default evaluated last, then evaluates the next one or
\* falls through to the function body
create_default_args(m, i) ==
  LET m1 == IF i.eval_index > 0
            THEN def_var_value(pop_val(m),
                               i.context.params[i.default_arg_exprs[i.eval_index][2]].name,
                               Local, top_val(m), TRUE)
            ELSE m
  IN IF i.eval_index + 1 <= Len(i.default_arg_exprs)
     THEN Ret(push_frame_flavored(
                push_intent_front(m1, [i EXCEPT !.eval_index = @ + 1]),
                i.default_arg_exprs[i.eval_index + 1][1], TRUE, "ArgumentExpression"))
     ELSE m1

CreateDefaultArgs ==
  /\ AtIntent("CreateDefaultArgs")
  /\ Commit(create_default_args(Taken, Intent), "CreateDefaultArgs", "intents")

\* Invoke: arguments are evaluated from the last expression to the first, then popped
\* first to last, then the function is popped and called
invoke(m, i) ==
  IF i.arg_eval_count < Len(i.arg_exprs)
  THEN LET arg_expr == i.arg_exprs[Len(i.arg_exprs) - i.arg_eval_count]
           m1 == push_intent_front(m, [i EXCEPT !.arg_eval_count = @ + 1])
           m2 == push_frame_flavored(m1, arg_expr.expr, TRUE, "ArgumentExpression")
       IN Ret(Log(m2, [op |-> "eval_arg", index |-> Len(i.arg_exprs) - i.arg_eval_count,
                       expr |-> arg_expr.expr, nth |-> i.arg_eval_count + 1,
                       arg_exprs |-> i.arg_exprs]))
  ELSE LET p  == PopArgs(m, i.arg_exprs, 1, <<>>)
           fv == top_val(p.m)
           m1 == PopFunc(p.m)
       IN IF ~Ok(m1) THEN m1
          ELSE IF i.is_temporal
          THEN LET temporal_state == TemporalSpreadState(i.arg_exprs, p.args)
               IN IF temporal_state.panic THEN runtime_error(m1, "PANIC")
                  ELSE IF ~temporal_is_empty(temporal_state)
                  THEN Ret(push_intent_front(m1, [k |-> "CallTemporal", func |-> fv,
                                                  temporal_state |-> temporal_state,
                                                  args |-> p.args, flag |-> i.flag]))
                  ELSE Ret(m1)
          ELSE LET r == call_func(m1, fv, p.args, i.flag, FALSE)
               IN Ret(LogAlways(r, [op |-> "invoke", func |-> fv, args |-> p.args,
                                    arg_exprs |-> i.arg_exprs, vals_before |-> m.vs,
                                    e |-> r.err]))

Invoke ==
  /\ AtIntent("Invoke")
  /\ Commit(invoke(Taken, Intent), "Invoke", "intents")

call_temporal(m, i) ==
  LET targs == TemporalArgs(i.temporal_state, i.args)
      inc   == temporal_increment(i.temporal_state)
      m1    == IF inc.success
               THEN push_intent_front(m, [i EXCEPT !.temporal_state.counters = inc.counters])
               ELSE m
      Event(r) == LogAlways(r, [op |-> "temporal_call", func |-> i.func, args |-> i.args,
                                targs |-> targs, temporal_state |-> i.temporal_state,
                                e |-> r.err])
  IN Ret(Event(call_func(m1, i.func, targs, i.flag, FALSE)))

CallTemporal ==
  /\ AtIntent("CallTemporal")
  /\ Commit(call_temporal(Taken, Intent), "CallTemporal", "intents")

call_intent(m, i) ==
  LET args == PoppedVals(m, i.argc)
      m1   == pop_vals(m, i.argc)
  IN Ret(call_func(PopFunc(m1), top_val(m1), args, i.flag, i.override_print))

Call ==
  /\ AtIntent("Call")
  /\ Commit(call_intent(Taken, Intent), "Call", "intents")

\* BuildDynamicSetter: the right-hand side first, then pending_exprs.pop() takes the
\* LAST pending expression
SetValueIntent(i, pushed) ==
  [k |-> "SetValue", path |-> i.path, write_mode |-> i.write_mode,
   expr_count |-> i.expr_count, pushed |-> pushed]

build_dynamic_setter(m, i) ==
  IF i.val_source.k = "FromExpression"
  THEN Ret(push_frame(push_intent_front(m, [i EXCEPT !.val_source = [k |-> "Consumed"]]),
                      i.val_source.expr, TRUE))
  ELSE LET m0 == IF i.val_source.k = "FromValue" THEN push_val(m, i.val_source.val) ELSE m
       IN IF i.pending_exprs # <<>>
          THEN LET key_expr == Last(i.pending_exprs)
                   pending  == Front(i.pending_exprs)
                   n  == IF Len(m0.cs) < MAX_STACK_SIZE THEN i.pushed + 1 ELSE i.pushed
                   m1 == push_intent_front(m0,
                           IF pending = <<>> THEN SetValueIntent(i, n)
                           ELSE [i EXCEPT !.pending_exprs = pending, !.pushed = n,
                                          !.val_source = [k |-> "Consumed"]])
                   m2 == push_frame_flavored(m1, key_expr, TRUE, "DynamicKeyExpression")
               IN Ret(Log(m2, [op |-> "eval_dynamic", expr |-> key_expr, path |-> i.path,
                               index |-> Len(i.pending_exprs),
                       nth |-> i.pushed + 1]))
          ELSE Ret(push_intent_front(m0, SetValueIntent(i, i.pushed)))

BuildDynamicSetter ==
  /\ AtIntent("BuildDynamicSetter")
  /\ Commit(build_dynamic_setter(Taken, Intent), "BuildDynamicSetter", "intents")

set_value_intent(m, i) ==
  LET Event(r) == LogAlways(r, r.ev @@ [pushed |-> i.pushed])
  IN Event(set_value(m, i.path, i.write_mode, i.expr_count))

SetValue ==
  /\ AtIntent("SetValue")
  /\ Commit(set_value_intent(Taken, Intent), "SetValue", "intents")

\* InvokePipeStep; step_index counts from 1, pipeval is <<>> (None) or <<v>>
PipeState(s, num_evaluated, step_function, args, temporal_state) ==
  [s |-> s, num_evaluated |-> num_evaluated, step_function |-> step_function,
   args |-> args, temporal_state |-> temporal_state]

NoTemporal == [counters |-> <<>>, arg_labels |-> <<>>, panic |-> FALSE]

EvaluatingFunc        == PipeState("EvaluatingFunc", 0, VEmpty, <<>>, NoTemporal)
EvaluatingArgs(n)     == PipeState("EvaluatingArgs", n, VEmpty, <<>>, NoTemporal)
PreCall(f, args)      == PipeState("PreCall", 0, f, args, NoTemporal)
PostCall              == PipeState("PostCall", 0, VEmpty, <<>>, NoTemporal)
PreTemporalCall(f, args, ts)  == PipeState("PreTemporalCall", 0, f, args, ts)
PostTemporalCall(f, args, ts) == PipeState("PostTemporalCall", 0, f, args, ts)

\* a step that never defines the pipe value in the frame it pushed
DefPipevalNever(m, pipeval) == m

DefPipeval(m, pipeval) == IF pipeval # <<>> THEN def_pipeval(m, pipeval[1]) ELSE m

\* the match on the state of the step
pipe_step(m, i) ==
  LET stp   == i.steps[i.step_index]
      state == i.state
      argc  == Len(stp.arguments)
      Next_(m0, pv) == Ret(push_intent_front(m0, [i EXCEPT !.step_index = @ + 1,
                                                           !.state = EvaluatingFunc,
                                                           !.pipeval = <<pv>>]))
  IN CASE state.s = "EvaluatingFunc" ->
            LET m1 == push_intent_front(m, [i EXCEPT !.state = EvaluatingArgs(0)])
            IN Ret(IF stp.target.k = "Path"
                   THEN push_getter_intents(m1, stp.target.path, TRUE, TRUE, <<>>)
                   ELSE DefPipeval(push_frame(m1, stp.target.expr, TRUE), i.pipeval))
       [] state.s = "EvaluatingArgs" ->
            IF state.num_evaluated < argc
            THEN LET arg_expr == stp.arguments[argc - state.num_evaluated]
                     m1 == push_intent_front(m, [i EXCEPT !.state =
                                                   EvaluatingArgs(state.num_evaluated + 1)])
                     m2 == push_frame_flavored(m1, arg_expr.expr, TRUE, "ArgumentExpression")
                 IN Ret(Log(DefPipeval(m2, i.pipeval),
                            [op |-> "eval_pipe_arg", step |-> i.step_index,
                             index |-> argc - state.num_evaluated]))
            ELSE LET p  == PopArgs(m, stp.arguments, 1, <<>>)
                     fv == top_val(p.m)
                     m1 == PopFunc(p.m)
                     ts == TemporalSpreadState(stp.arguments, p.args)
                 IN IF ~Ok(m1) THEN m1
                    ELSE IF stp.is_temporal /\ ts.panic THEN runtime_error(m1, "PANIC")
                    ELSE Ret(push_intent_front(m1, [i EXCEPT !.state =
                               IF stp.is_temporal THEN PreTemporalCall(fv, p.args, ts)
                               ELSE PreCall(fv, p.args)]))
       [] state.s = "PreCall" ->
            Ret(call_func(push_intent_front(m, [i EXCEPT !.state = PostCall]),
                          state.step_function, state.args, "None", TRUE))
       [] state.s = "PostCall" ->
            LET next_pipeval == top_val(m)
                m1 == pop_val(m)
            IN IF i.step_index + 1 <= Len(i.steps) THEN Next_(m1, next_pipeval)
               ELSE write_value(m1, next_pipeval)
       [] state.s = "PreTemporalCall" ->
            Ret(call_func(push_intent_front(m, [i EXCEPT !.state =
                            PostTemporalCall(state.step_function, state.args, state.temporal_state)]),
                          state.step_function, TemporalArgs(state.temporal_state, state.args),
                          "None", TRUE))
       [] OTHER ->
            LET next_pipeval == top_val(m)
                m1  == pop_val(m)
                inc == temporal_increment(state.temporal_state)
                m2  == IF inc.success
                       THEN push_intent_front(m1, [i EXCEPT !.state =
                              PreTemporalCall(state.step_function, state.args,
                                [state.temporal_state EXCEPT !.counters = inc.counters])])
                       ELSE m1
            IN IF i.step_index + 1 <= Len(i.steps) THEN Next_(m2, next_pipeval)
               ELSE write_value(m2, next_pipeval)

\* Intent::InvokePipeStep.  `trail` is history: the states the chain has been handled in,
\* each with its step, the pipe value it held and, for a Post state, the value it popped.
invoke_pipe_step(m, i) ==
  LET post == i.state.s \in {"PostCall", "PostTemporalCall"}
      here == [s |-> i.state.s, k |-> i.step_index, pv |-> i.pipeval,
               ret |-> IF post /\ m.vs # <<>> THEN <<top_val(m)>> ELSE <<>>]
      Event(r) == Log(r, [op |-> "pipe_step", s |-> i.state.s, k |-> i.step_index,
                          steps |-> Len(i.steps), pipeval |-> i.pipeval, ret |-> here.ret,
                          state |-> i.state,
                          trail |-> Append(i.trail, here), called |-> r.ev,
                          out_before |-> cur_frame(m).out,
                          out_after |-> r.cs[Len(m.cs)].out,
                          pushed |-> SubSeq(r.cs, Len(m.cs) + 1, Len(r.cs))])
  IN IF Ok(m) /\ m.cs # <<>> THEN Event(pipe_step(m, [i EXCEPT !.trail = Append(@, here)]))
     ELSE pipe_step(m, i)

InvokePipeStep ==
  /\ AtIntent("InvokePipeStep")
  /\ Commit(invoke_pipe_step(Taken, Intent), "InvokePipeStep", "intents")

build_list(m, i) ==
  LET m1   == IF i.index > 0 THEN pop_val(m) ELSE m
      list == IF i.index > 0 THEN Append(i.list, top_val(m)) ELSE i.list
  IN IF i.index >= Len(i.init) THEN write_value(m1, VList(list))
     ELSE Ret(push_frame(push_intent_front(m1, [i EXCEPT !.index = @ + 1, !.list = list]),
                         i.init[i.index + 1], TRUE))

BuildList ==
  /\ AtIntent("BuildList")
  /\ Commit(build_list(Taken, Intent), "BuildList", "intents")

\* RantMap::raw_set
raw_set(es, key, val) ==
  LET j == FindKey(es, Len(es), key)
  IN IF j = 0 THEN Append(es, VEntry(key, val)) ELSE [es EXCEPT ![j] = VEntry(key, val)]

\* BuildMap: a pair with a dynamic key pushes the key's frame and then the value's
build_map(m, i) ==
  LET dyn == i.pair_index > 0 /\ i.init[i.pair_index].key.k = "Dynamic"
      m1  == IF dyn THEN pop_val(m) ELSE m
      key == IF dyn THEN to_string(top_val(m))
             ELSE IF i.pair_index > 0 THEN i.init[i.pair_index].key.name ELSE ""
      m2  == IF i.pair_index > 0 THEN pop_val(m1) ELSE m1
      map == IF i.pair_index > 0 /\ Ok(m2) THEN raw_set(i.map, key, top_val(m1)) ELSE i.map
  IN IF i.pair_index >= Len(i.init) THEN write_value(m2, VMap(map))
     ELSE LET pair == i.init[i.pair_index + 1]
              m3 == push_intent_front(m2, [i EXCEPT !.pair_index = @ + 1, !.map = map])
              m4 == IF pair.key.k = "Dynamic" THEN push_frame(m3, pair.key.expr, TRUE) ELSE m3
          IN Ret(push_frame(m4, pair.val, TRUE))

BuildMap ==
  /\ AtIntent("BuildMap")
  /\ Commit(build_map(Taken, Intent), "BuildMap", "intents")

ImportLastAsModule ==
  /\ AtIntent("ImportLastAsModule")
  /\ Commit(def_var_value(pop_val(Taken), Intent.module_name, Descope(Intent.descope),
                          top_val(Taken), TRUE),
            "ImportLastAsModule", "intents")

RuntimeCall ==
  /\ AtIntent("RuntimeCall")
  /\ Commit(LET r == RunNative(Taken, Intent.function)
            IN IF Intent.interrupt THEN Ret(r) ELSE r,
            "RuntimeCall", "intents")

\* DropStaleUnwinds: pops unwind states while the last one's call_stack_size is below
\* the call stack's length
RECURSIVE DropStale(_)
DropStale(m) ==
  IF m.uw = <<>> \/ Last(m.uw).call_stack_size >= Len(m.cs) THEN m
  ELSE DropStale([m EXCEPT !.uw = Front(@)])

DropStaleUnwinds ==
  /\ AtIntent("DropStaleUnwinds")
  /\ Commit(DropStale(Taken), "DropStaleUnwinds", "intents")

-----------------------------------------------------------------------------
(* The sequence loop: one action per RST node kind *)

AtNode(k) ==
  /\ pc = "seq"
  /\ call_stack # <<>>
  /\ cur_frame(Machine).pos < Len(cur_frame(Machine).seq)
  /\ cur_frame(Machine).seq[cur_frame(Machine).pos + 1].k = k

\* the node seq_next hands to the match, and the machine it leaves
Node    == cur_frame(Machine).seq[cur_frame(Machine).pos + 1]
Stepped == [Machine EXCEPT !.cs[Len(call_stack)].pos = @ + 1]

ListInit ==
  /\ AtNode("ListInit")
  /\ Commit(Ret(push_intent_front(Stepped, [k |-> "BuildList", init |-> Node.elements,
                                            index |-> 0, list |-> <<>>])),
            "ListInit", "seq")

MapInit ==
  /\ AtNode("MapInit")
  /\ Commit(Ret(push_intent_front(Stepped, [k |-> "BuildMap", init |-> Node.elements,
                                            pair_index |-> 0, map |-> <<>>])),
            "MapInit", "seq")

Block ==
  /\ AtNode("Block")
  /\ \E pick \in 1..Len(Node.block.elems) :
       Commit(Ret(pre_push_block(Stepped, Node.block, Node.block.flag, pick)), "Block", "seq")

\* Rst::DefVar and Rst::DefConst
\* a definition with a value expression that pushes the frame and does not return
def_node_continues(m, node, is_const) ==
  IF node.val_expr # <<>>
  THEN push_frame(push_intent_front(m, [k |-> "DefVar", vname |-> node.vname,
                                        access_kind |-> node.access_kind,
                                        is_const |-> is_const]),
                  node.val_expr[1], TRUE)
  ELSE def_var_value(m, node.vname, node.access_kind, VEmpty, is_const)

def_node(m, node, is_const) ==
  IF node.val_expr # <<>>
  THEN Ret(push_frame(push_intent_front(m, [k |-> "DefVar", vname |-> node.vname,
                                            access_kind |-> node.access_kind,
                                            is_const |-> is_const]),
                      node.val_expr[1], TRUE))
  ELSE def_var_value(m, node.vname, node.access_kind, VEmpty, is_const)

DefVarNode ==
  /\ AtNode("DefVar")
  /\ Commit(def_node(Stepped, Node, FALSE), "Rst::DefVar", "seq")

DefConst ==
  /\ AtNode("DefConst")
  /\ Commit(def_node(Stepped, Node, TRUE), "Rst::DefConst", "seq")

Get ==
  /\ AtNode("Get")
  /\ Commit(Ret(push_getter_intents(Stepped, Node.path, FALSE, FALSE, Node.fallback)),
            "Get", "seq")

depth_node(m, node) ==
  IF VarDefined(m, node.vname, node.access_kind)
  THEN write_value(m, VInt(get_var_depth(m, node.vname, node.access_kind)))
  ELSE IF node.fallback # <<>>
  THEN Ret(push_frame(push_intent_front(m, [k |-> "PrintLast"]), node.fallback[1], TRUE))
  ELSE runtime_error(m, "InvalidAccess")

DepthNode ==
  /\ AtNode("Depth")
  /\ Commit(depth_node(Stepped, Node), "Depth", "seq")

set_node(m, node) ==
  LET exprs == dynamic_exprs(node.path)
  IN IF exprs = <<>>
     THEN Ret(push_frame(push_intent_front(m, [k |-> "SetValue", path |-> node.path,
                                               write_mode |-> "SetOnly", expr_count |-> 0,
                                               pushed |-> 0]),
                         node.val_expr, TRUE))
     ELSE Ret(push_intent_front(m, [k |-> "BuildDynamicSetter", expr_count |-> Len(exprs),
                                    write_mode |-> "SetOnly", path |-> node.path,
                                    pending_exprs |-> exprs, pushed |-> 0,
                                    val_source |-> [k |-> "FromExpression",
                                                    expr |-> node.val_expr]]))

Set ==
  /\ AtNode("Set")
  /\ Commit(set_node(Stepped, Node), "Set", "seq")

\* "Capture variables" and "Build function": [e, v]
\* RantVar::make_by_ref on the variable get_var_mut(name, Local) finds: a by-value
\* variable moves its value into a new shared cell; a by-reference one is left alone
make_by_ref(m, name) ==
  LET i     == FrameOf(m.cs, Len(m.cs), name)
      scope == IF i = 0 THEN m.gl ELSE m.cs[i].locals
      j     == FindVar(scope, Len(scope), name)
      cell  == Len(m.hp) + 1
      moved == [scope EXCEPT ![j] = [@ EXCEPT !.ref = cell, !.val = VEmpty]]
  IN IF scope[j].ref # 0 THEN m
     ELSE IF i = 0 THEN [m EXCEPT !.hp = Append(@, scope[j].val), !.gl = moved]
     ELSE [m EXCEPT !.hp = Append(@, scope[j].val), !.cs[i].locals = moved]

\* the variable get_var_mut(name, Local) finds
LocalVar(m, name) ==
  LET i == FrameOf(m.cs, Len(m.cs), name)
  IN VarOf(IF i = 0 THEN m.gl ELSE m.cs[i].locals, name)

\* a capture loop that clones the variables as they are, without make_by_ref
RECURSIVE CaptureByValue(_, _, _, _)
CaptureByValue(m, to_capture, i, captured) ==
  IF i > Len(to_capture) THEN [m |-> m, captured |-> captured]
  ELSE IF ~VarDefined(m, to_capture[i], Local)
  THEN [m |-> runtime_error(m, "InvalidAccess"), captured |-> captured]
  ELSE CaptureByValue(m, to_capture, i + 1,
                      Append(captured, [LocalVar(m, to_capture[i]) EXCEPT !.name = to_capture[i]]))

\* "Capture variables": [m, captured]; the captured variable is a clone of the scope's
\* variable after make_by_ref, so both hold the same cell
RECURSIVE Capture(_, _, _, _)
Capture(m, to_capture, i, captured) ==
  IF i > Len(to_capture) THEN [m |-> m, captured |-> captured]
  ELSE IF ~VarDefined(m, to_capture[i], Local)
  THEN [m |-> runtime_error(m, "InvalidAccess"), captured |-> captured]
  ELSE LET m1 == make_by_ref(m, to_capture[i])
       IN Capture(m1, to_capture, i + 1,
                  Append(captured, [LocalVar(m1, to_capture[i]) EXCEPT !.name = to_capture[i]]))

\* min_arg_count that counts only the leading Required parameters
RECURSIVE RequiredPrefixStrict(_, _)
RequiredPrefixStrict(params, i) ==
  IF i > Len(params) \/ params[i].varity # "Required" THEN i - 1
  ELSE RequiredPrefixStrict(params, i + 1)

RECURSIVE RequiredPrefix(_, _)
RequiredPrefix(params, i) ==
  IF i > Len(params) \/ params[i].varity \notin {"Required", "VariadicPlus"} THEN i - 1
  ELSE RequiredPrefix(params, i + 1)

RECURSIVE FirstVariadic(_, _)
FirstVariadic(params, i) ==
  IF i > Len(params) THEN Len(params)
  ELSE IF IsVariadicVarity(params[i].varity) THEN i - 1
  ELSE FirstVariadic(params, i + 1)

BuildFunction(params, body, captured) ==
  VFunc([NoFn EXCEPT !.body = body, !.captured_vars = captured,
                     !.min_arg_count = RequiredPrefix(params, 1),
                     !.vararg_start_index = FirstVariadic(params, 1),
                     !.params = params])

func_def(m, node) ==
  LET c == Capture(m, node.capture_vars, 1, <<>>)
      dynamic_keys == dynamic_exprs(node.path)
  IN IF ~Ok(c.m) THEN c.m
     ELSE Ret(push_intent_front(c.m,
                [k |-> "BuildDynamicSetter", expr_count |-> Len(dynamic_keys),
                 write_mode |-> IF node.is_const THEN "DefineConst" ELSE "Define",
                 pending_exprs |-> dynamic_keys, path |-> node.path, pushed |-> 0,
                 val_source |-> [k |-> "FromValue",
                                 val |-> BuildFunction(node.params, node.body, c.captured)]]))

FuncDef ==
  /\ AtNode("FuncDef")
  /\ Commit(func_def(Stepped, Node), "FuncDef", "seq")

lambda_node(m, node) ==
  LET c == Capture(m, node.capture_vars, 1, <<>>)
  IN IF ~Ok(c.m) THEN c.m
     ELSE write_value(c.m, BuildFunction(node.params, node.body, c.captured))

Lambda ==
  /\ AtNode("Lambda")
  /\ Commit(lambda_node(Stepped, Node), "Lambda", "seq")

func_call(m, fcall) ==
  LET m1 == push_intent_front(m, [k |-> "Invoke", arg_eval_count |-> 0,
                                  arg_exprs |-> fcall.arguments, flag |-> fcall.flag,
                                  is_temporal |-> fcall.is_temporal])
  IN Ret(IF fcall.target.k = "Path"
         THEN push_getter_intents(m1, fcall.target.path, TRUE, TRUE, <<>>)
         ELSE push_frame(m1, fcall.target.expr, TRUE))

FuncCall ==
  /\ AtNode("FuncCall")
  /\ Commit(func_call(Stepped, Node), "FuncCall", "seq")

PipedCall ==
  /\ AtNode("PipedCall")
  /\ Commit(Ret(push_intent_front(Stepped, [k |-> "InvokePipeStep", steps |-> Node.steps,
                                            step_index |-> 1, state |-> EvaluatingFunc,
                                            pipeval |-> <<>>, flag |-> Node.flag,
                                            trail |-> <<>>])),
            "PipedCall", "seq")

PipeValue ==
  /\ AtNode("PipeValue")
  /\ Commit(IF VarDefined(Stepped, PIPE_VALUE_NAME, Local)
            THEN write_value(Stepped, var_value(Stepped, PIPE_VALUE_NAME, Local, FALSE))
            ELSE runtime_error(Stepped, "InvalidAccess"),
            "PipeValue", "seq")

DebugCursor ==
  /\ AtNode("DebugCursor")
  /\ Commit(Stepped, "DebugCursor", "seq")

Fragment ==
  /\ AtNode("Fragment")
  /\ Commit(write_value(Stepped, VStr(Node.s)), "Fragment", "seq")

Whitespace ==
  /\ AtNode("Whitespace")
  /\ Commit(write_value(Stepped, VStr(Node.s)), "Whitespace", "seq")

Integer ==
  /\ AtNode("Integer")
  /\ Commit(write_value(Stepped, VInt(Node.n)), "Integer", "seq")

Float ==
  /\ AtNode("Float")
  /\ Commit(write_value(Stepped, VFloat(Node.n)), "Float", "seq")

EmptyValue ==
  /\ AtNode("EmptyValue")
  /\ Commit(write_value(Stepped, VEmpty), "EmptyValue", "seq")

Boolean ==
  /\ AtNode("Boolean")
  /\ Commit(write_value(Stepped, VBool(Node.b)), "Boolean", "seq")

Nop ==
  /\ AtNode("Nop")
  /\ Commit(Stepped, "Nop", "seq")

\* Return, Continue, Break with an expression: the intent is queued, the expression's
\* frame is pushed, and the sequence loop goes on (`continue`) in the pushed frame
WithValue(m, node, intent) ==
  push_frame(push_intent_front(m, [k |-> intent]), node.expr[1], TRUE)

Return ==
  /\ AtNode("Return")
  /\ Commit(IF Node.expr # <<>> THEN WithValue(Stepped, Node, "ReturnLast")
            ELSE Ret(func_return(Stepped, <<>>)),
            "Return", "seq")

Continue ==
  /\ AtNode("Continue")
  /\ Commit(IF Node.expr # <<>> THEN WithValue(Stepped, Node, "ContinueLast")
            ELSE Ret(interrupt_repeater(Stepped, <<>>, TRUE)),
            "Continue", "seq")

Break ==
  /\ AtNode("Break")
  /\ Commit(IF Node.expr # <<>> THEN WithValue(Stepped, Node, "BreakLast")
            ELSE Ret(interrupt_repeater(Stepped, <<>>, FALSE)),
            "Break", "seq")

\* any other node (Rst::Sequence) is "unsupported node type"
Unsupported ==
  /\ AtNode("Sequence")
  /\ Commit(runtime_error(Stepped, "InternalError"), "Sequence", "seq")

-----------------------------------------------------------------------------
(* tick's frame: entry, the end of the intent loop, the end of the sequence *)

NoEvent == [op |-> "none"]

\* run_inner's loop calls tick while the call stack has a frame
TickStart ==
  /\ pc = "run"
  /\ call_stack # <<>>
  /\ pc' = "intents"
  /\ tick0' = Len(call_stack)
  /\ step' = "tick"
  /\ ev' = NoEvent
  /\ UNCHANGED <<parser, prog, call_stack, val_stack, block_stack, attr_stack, unwinds, globals, cells, err>>

\* take_intent returned None
IntentsFinished ==
  /\ pc = "intents"
  /\ call_stack # <<>>
  /\ cur_frame(Machine).intents = <<>>
  /\ pc' = "seq"
  /\ step' = "intents finished"
  /\ ev' = NoEvent
  /\ UNCHANGED <<parser, prog, call_stack, val_stack, block_stack, attr_stack, unwinds, globals, cells, err,
                 tick0>>

\* seq_next returned None: "Pop frame once its sequence is finished"
frame_done(m) ==
  LET last_frame == cur_frame(m)
      m1 == pop_frame(m)
  IN IF last_frame.has_out THEN push_val(m1, render_value(last_frame.out)) ELSE m1

FrameDone ==
  /\ pc = "seq"
  /\ call_stack # <<>>
  /\ cur_frame(Machine).pos >= Len(cur_frame(Machine).seq)
  /\ Commit(Ret(Log(frame_done(Machine), [op |-> "frame_done", frame |-> cur_frame(Machine)])),
            "frame done", "seq")

-----------------------------------------------------------------------------
(* Programs: RSTs as the compiler builds them *)

RFrag(s)  == [k |-> "Fragment", s |-> s]
RWs       == [k |-> "Whitespace", s |-> " "]
RInt(n)   == [k |-> "Integer", n |-> n]
RFloat(n) == [k |-> "Float", n |-> n]
RBool(b)  == [k |-> "Boolean", b |-> b]
REmpty    == [k |-> "EmptyValue"]
RNop      == [k |-> "Nop"]
RDebug    == [k |-> "DebugCursor"]

RPath(comps) == AccessPath(comps, Local)

RGet(comps)       == [k |-> "Get", path |-> RPath(comps), fallback |-> <<>>]
RGetOr(comps, fb) == [k |-> "Get", path |-> RPath(comps), fallback |-> <<fb>>]
RSet(comps, val_expr) == [k |-> "Set", path |-> RPath(comps), val_expr |-> val_expr]
RDef(vname)           == [k |-> "DefVar", vname |-> vname, access_kind |-> Local, val_expr |-> <<>>]
RDefTo(vname, e)      == [k |-> "DefVar", vname |-> vname, access_kind |-> Local, val_expr |-> <<e>>]
RConst(vname)         == [k |-> "DefConst", vname |-> vname, access_kind |-> Local, val_expr |-> <<>>]
RConstTo(vname, e)    == [k |-> "DefConst", vname |-> vname, access_kind |-> Local, val_expr |-> <<e>>]
RDepth(vname)         == [k |-> "Depth", vname |-> vname, access_kind |-> Local, fallback |-> <<>>]
RDepthOr(vname, fb)   == [k |-> "Depth", vname |-> vname, access_kind |-> Local, fallback |-> <<fb>>]

Param(name, varity)      == [name |-> name, varity |-> varity, default |-> <<>>, has_default |-> FALSE]
ParamDefault(name, e)    == [name |-> name, varity |-> "Optional", default |-> e, has_default |-> TRUE]

RFuncDef(name, params, body) ==
  [k |-> "FuncDef", body |-> body, capture_vars |-> <<>>, is_const |-> FALSE,
   params |-> params, path |-> RPath(<<Name(name)>>)]
RLambda(params, body, capture_vars) ==
  [k |-> "Lambda", params |-> params, body |-> body, capture_vars |-> capture_vars]

Arg(expr)            == [expr |-> expr, spread_mode |-> "NoSpread", label |-> 0]
ArgParametric(expr)  == [expr |-> expr, spread_mode |-> "Parametric", label |-> 0]
ArgTemporal(expr, l) == [expr |-> expr, spread_mode |-> "Temporal", label |-> l]

RCall(name, arguments, flag) ==
  [k |-> "FuncCall", target |-> [k |-> "Path", path |-> RPath(<<Name(name)>>)],
   arguments |-> arguments, flag |-> flag, is_temporal |-> FALSE]
RCallExpr(expr, arguments, flag) ==
  [k |-> "FuncCall", target |-> [k |-> "Expression", expr |-> expr],
   arguments |-> arguments, flag |-> flag, is_temporal |-> FALSE]
RCallTemporal(name, arguments, flag) ==
  [k |-> "FuncCall", target |-> [k |-> "Path", path |-> RPath(<<Name(name)>>)],
   arguments |-> arguments, flag |-> flag, is_temporal |-> TRUE]

Elem(main)          == [main |-> main, weight |-> [w |-> "None"]]
ElemWeighted(main, e) == [main |-> main, weight |-> [w |-> "Dynamic", expr |-> e]]
ElemConstant(main)  == [main |-> main, weight |-> [w |-> "Constant"]]
RBlock(id, elems, flag) ==
  [k |-> "Block", block |-> [elems |-> elems, flag |-> flag, is_weighted |-> FALSE, id |-> id]]
RWeightedBlock(id, elems, flag) ==
  [k |-> "Block", block |-> [elems |-> elems, flag |-> flag, is_weighted |-> TRUE, id |-> id]]

RReturn        == [k |-> "Return", expr |-> <<>>]
RReturnVal(e)  == [k |-> "Return", expr |-> <<e>>]
RBreak         == [k |-> "Break", expr |-> <<>>]
RBreakVal(e)   == [k |-> "Break", expr |-> <<e>>]
RContinue      == [k |-> "Continue", expr |-> <<>>]
RContinueVal(e) == [k |-> "Continue", expr |-> <<e>>]

\* a b 1 1.0 <empty> true
PLiterals == <<RFrag("a"), RWs, RInt(1), RFloat(1), REmpty, RBool(TRUE), RNop, RDebug>>

\* [$f: a; b] { <b> }  [f: 1; 2]
PCall ==
  <<RFuncDef("f", <<Param("a", "Required"), Param("b", "Required")>>, <<RGet(<<Name("b")>>)>>),
    RCall("f", <<Arg(<<RInt(1)>>), Arg(<<RInt(2)>>)>>, "None")>>

\* [$f] { @return 1 }  ![f]   -- a sinked call of a function that returns a value
PSinkReturn ==
  <<RFuncDef("f", <<>>, <<RReturnVal(<<RInt(1)>>)>>),
    RCall("f", <<>>, "Sink")>>

Rep(n) == RCall("rep", <<Arg(<<RInt(n)>>)>>, "None")

\* [$f] { { @return 1 } }  [f]   -- a return with a value from inside a block
PBlockReturnVal ==
  <<RFuncDef("f", <<>>, <<RBlock(1, <<Elem(<<RReturnVal(<<RInt(1)>>)>>)>>, "None")>>),
    RCall("f", <<>>, "None"),
    RFrag("z")>>

\* [$f] { { a @return } b }  [f]   -- a return without a value from inside a block
PBlockReturn ==
  <<RFuncDef("f", <<>>, <<RBlock(1, <<Elem(<<RFrag("a"), RReturn>>)>>, "None"), RFrag("b")>>),
    RCall("f", <<>>, "None"),
    RFrag("z")>>

\* [rep:2] { a { @break } b }  z   -- a break without a value, from a block inside the repeater
PBreak ==
  <<Rep(2),
    RBlock(1, <<Elem(<<RFrag("a"), RBlock(2, <<Elem(<<RBreak>>)>>, "None"), RFrag("b")>>)>>, "None"),
    RFrag("z")>>

\* [rep:2] { a @continue b }  z
PContinue ==
  <<Rep(2), RBlock(1, <<Elem(<<RFrag("a"), RContinue, RFrag("b")>>)>>, "None"), RFrag("z")>>

\* [rep:2] !{ @break 1 }   -- a break with a value out of a sinked repeater
PSinkBreakVal ==
  <<Rep(2), RBlock(1, <<Elem(<<RBreakVal(<<RInt(1)>>)>>)>>, "Sink")>>

\* [rep:2] { @continue 1 }   -- a continue with a value in a printing repeater
PContinueVal ==
  <<Rep(2), RBlock(1, <<Elem(<<RContinueVal(<<RInt(1)>>)>>)>>, "None")>>

\* [$f] { [rep:2] { @return 1 } }  [rep:2] { [f] @break }  z
PReturnThenBreak ==
  <<RFuncDef("f", <<>>, <<Rep(2), RBlock(2, <<Elem(<<RReturnVal(<<RInt(1)>>)>>)>>, "None")>>),
    Rep(2),
    RBlock(1, <<Elem(<<RCall("f", <<>>, "None"), RBreak>>)>>, "None"),
    RFrag("z")>>

\* [$f] { [rep:2] { @return 1 } }  [rep:2] { [f] @continue }  z
PReturnThenContinue ==
  <<RFuncDef("f", <<>>, <<Rep(2), RBlock(2, <<Elem(<<RReturnVal(<<RInt(1)>>)>>)>>, "None")>>),
    Rep(2),
    RBlock(1, <<Elem(<<RCall("f", <<>>, "None"), RContinue>>)>>, "None"),
    RFrag("z")>>

Error == RCall("error", <<>>, "None")
Fn(body) == RLambda(<<>>, body, <<>>)
Handler(params, body) == RLambda(params, body, <<>>)

\* [try: [?]{ a [error] }]  z   -- an error under an unwind state without a handler
PTry ==
  <<RCall("try", <<Arg(<<Fn(<<RFrag("a"), Error>>)>>)>>, "None"), RFrag("z")>>

\* [try: [?]{ [error] }; [?: e]{ <e> }]  z   -- a handler taking the message
PTryHandler ==
  <<RCall("try", <<Arg(<<Fn(<<Error>>)>>),
                   Arg(<<Handler(<<Param("e", "Required")>>, <<RGet(<<Name("e")>>)>>)>>)>>, "None"),
    RFrag("z")>>

\* [try: [?]{ [try: [?]{ [error] }; [?]{ h }] }; [?: e]{ o }]
\* -- the inner handler takes no parameter, so calling it with the message is rejected
PTryBadHandler ==
  <<RCall("try",
          <<Arg(<<Fn(<<RCall("try", <<Arg(<<Fn(<<Error>>)>>),
                                      Arg(<<Handler(<<>>, <<RFrag("h")>>)>>)>>, "None")>>)>>),
            Arg(<<Handler(<<Param("e", "Required")>>, <<RFrag("o")>>)>>)>>, "None")>>

\* [$f: a; b]{}  [try: [?]{ { [f: [error]; 1] } }; [?: e]{ <e> }]
\* -- the error is raised with a value, a frame and a block above the recorded sizes
PTryArgs ==
  <<RFuncDef("f", <<Param("a", "Required"), Param("b", "Required")>>, <<>>),
    RCall("try", <<Arg(<<Fn(<<RBlock(1, <<Elem(<<RCall("f", <<Arg(<<Error>>), Arg(<<RInt(1)>>)>>,
                                                       "None")>>)>>, "None")>>)>>),
                   Arg(<<Handler(<<Param("e", "Required")>>, <<RGet(<<Name("e")>>)>>)>>)>>,
          "None")>>

\* [$f]{ [f] }  [f]   -- unbounded recursion
POverflow ==
  <<RFuncDef("f", <<>>, <<RCall("f", <<>>, "None")>>), RCall("f", <<>>, "None")>>

\* [$f]{ [f] }  [try: <f>; [?: e]{ <e> }]   -- unbounded recursion under an unwind state
PTryOverflow ==
  <<RFuncDef("f", <<>>, <<RCall("f", <<>>, "None")>>),
    RCall("try", <<Arg(<<RGet(<<Name("f")>>)>>),
                   Arg(<<Handler(<<Param("e", "Required")>>, <<RGet(<<Name("e")>>)>>)>>)>>, "None")>>

\* (: 1; 2)  @(a = 1; (k) = 2; (j) = 3)
StaticKey(name, val) == [key |-> [k |-> "Static", name |-> name], val |-> val]
DynKey(expr, val)    == [key |-> [k |-> "Dynamic", expr |-> expr], val |-> val]
PCollections ==
  <<[k |-> "ListInit", elements |-> << <<RInt(1)>>, <<RInt(2)>> >>],
    [k |-> "MapInit", elements |-> <<StaticKey("a", <<RInt(1)>>),
                                     DynKey(<<RFrag("k")>>, <<RInt(2)>>),
                                     DynKey(<<RFrag("j")>>, <<RInt(3)>>)>>]>>

List56 == [k |-> "ListInit", elements |-> << <<RInt(5)>>, <<RInt(6)>> >>]

\* <$x = (: 5; 6)>  <(x)/(1)>  <x/(0)..(1)>  <((: 5; 6))/(0)>
PDynamicGet ==
  <<RDefTo("x", <<List56>>),
    RGet(<<DynamicKey(<<RFrag("x")>>), DynamicKey(<<RInt(1)>>)>>),
    RGet(<<Name("x"), SliceExpr("Between", Dynamic(<<RInt(0)>>), Dynamic(<<RInt(1)>>))>>),
    RGet(<<AnonymousValue(<<List56>>), DynamicKey(<<RInt(0)>>)>>)>>

\* <$x = (: 5; 6)>  <(x)/(0) = 9>  <x/1 = 8>  <x = 7>
PDynamicSet ==
  <<RDefTo("x", <<List56>>),
    RSet(<<DynamicKey(<<RFrag("x")>>), DynamicKey(<<RInt(0)>>)>>, <<RInt(9)>>),
    RSet(<<Name("x"), Index(1)>>, <<RInt(8)>>),
    RSet(<<Name("x")>>, <<RInt(7)>>)>>

\* <$x = (: 5; 6)>  <x/(2)/(0) ? f>  <(x)/(2)/(0) = 9>
\* -- the walk fails at the first index, before the second dynamic value is taken
PDynamicFail ==
  <<RDefTo("x", <<List56>>),
    RGetOr(<<Name("x"), DynamicKey(<<RInt(2)>>), DynamicKey(<<RInt(0)>>)>>, <<RFrag("f")>>),
    RSet(<<DynamicKey(<<RFrag("x")>>), DynamicKey(<<RInt(2)>>), DynamicKey(<<RInt(0)>>)>>,
         <<RInt(9)>>)>>

\* <$y>  <%c = 1>  <%k>  [%depth-of y]  [%depth-of nope ? f]  [[?]{ l }]
PDefinitions ==
  <<RDef("y"), RConstTo("c", <<RInt(1)>>), RConst("k"), RDepth("y"),
    RDepthOr("nope", <<RFrag("f")>>), RCallExpr(<<Fn(<<RFrag("l")>>)>>, <<>>, "None")>>

\* [$g: a ? 3; b ? 4] { <a> }  [g]   -- both defaults are evaluated
PDefaults ==
  <<RFuncDef("g", <<ParamDefault("a", <<RInt(3)>>), ParamDefault("b", <<RInt(4)>>)>>,
             <<RGet(<<Name("a")>>)>>),
    RCall("g", <<>>, "None")>>

Step(name, arguments) ==
  [target |-> [k |-> "Path", path |-> RPath(<<Name(name)>>)], arguments |-> arguments,
   flag |-> "None", is_temporal |-> FALSE]
StepExpr(expr, arguments) ==
  [target |-> [k |-> "Expression", expr |-> expr], arguments |-> arguments,
   flag |-> "None", is_temporal |-> FALSE]
RPipeValue == [k |-> "PipeValue"]

\* [$id: a] { <a> }  [id: 1 |> id: [] |> [?: a]{ <a> }: []]
PPiped ==
  <<RFuncDef("id", <<Param("a", "Required")>>, <<RGet(<<Name("a")>>)>>),
    [k |-> "PipedCall", flag |-> "None",
     steps |-> <<Step("id", <<Arg(<<RInt(1)>>)>>),
                 Step("id", <<Arg(<<RPipeValue>>)>>),
                 StepExpr(<<Handler(<<Param("a", "Required")>>, <<RGet(<<Name("a")>>)>>)>>,
                          <<Arg(<<RPipeValue>>)>>)>>]>>

List12 == [k |-> "ListInit", elements |-> << <<RInt(1)>>, <<RInt(2)>> >>]

\* [$id: a] { <a> }  [id: **(: 1; 2)]  [$two: a; b] { <b> }  [two: *(: 1; 2)]
PSpread ==
  <<RFuncDef("id", <<Param("a", "Required")>>, <<RGet(<<Name("a")>>)>>),
    RCallTemporal("id", <<ArgTemporal(<<List12>>, 0)>>, "None"),
    RFuncDef("two", <<Param("a", "Required"), Param("b", "Required")>>, <<RGet(<<Name("b")>>)>>),
    RCall("two", <<ArgParametric(<<List12>>)>>, "None")>>

\* { a @weight (2) | b @weight 1 | c }
PWeighted ==
  <<RWeightedBlock(1, <<ElemWeighted(<<RFrag("a")>>, <<RInt(2)>>), ElemConstant(<<RFrag("b")>>),
                        Elem(<<RFrag("c")>>)>>, "None")>>

\* [rep:2] [sep: s] { a }  [rep:2] [sep: [?]{ t }] { b }
PSeparator ==
  <<Rep(2), RCall("sep", <<Arg(<<RFrag("s")>>)>>, "None"),
    RBlock(1, <<Elem(<<RFrag("a")>>)>>, "None"),
    Rep(2), RCall("sep", <<Arg(<<Fn(<<RFrag("t")>>)>>)>>, "None"),
    RBlock(2, <<Elem(<<RFrag("b")>>)>>, "None")>>

\* [rep:2] [pipe: [?: e]{ [e] }] { a }
PPipeAttr ==
  <<Rep(2),
    RCall("pipe", <<Arg(<<Handler(<<Param("e", "Required")>>, <<RCall("e", <<>>, "None")>>)>>)>>,
          "None"),
    RBlock(1, <<Elem(<<RFrag("a")>>)>>, "None")>>

\* a node the sequence loop does not support, under nothing
PUnsupported == <<RFrag("a"), [k |-> "Sequence"]>>

\* [require: m]  <m>
PRequire == <<RCall("require", <<Arg(<<RFrag("m")>>)>>, "None"), RGet(<<Name("m")>>)>>

\* [$f] { a @return @return 1 }  [f]  b  @return  c
PReturnChain ==
  <<RFuncDef("f", <<>>, <<RFrag("a"), RReturnVal(<<RReturnVal(<<RInt(1)>>)>>)>>),
    RCall("f", <<>>, "None"), RFrag("b"), RReturn, RFrag("c")>>

\* [try: [?]{ a }]  z   -- a protected call that raises nothing
PTryOk ==
  <<RCall("try", <<Arg(<<Fn(<<RFrag("a")>>)>>)>>, "None"), RFrag("z")>>

\* [try: [?]{ [try: [?]{ a }] b }]  z   -- a protected call that ends inside another
PTryNestedOk ==
  <<RCall("try", <<Arg(<<Fn(<<RCall("try", <<Arg(<<Fn(<<RFrag("a")>>)>>)>>, "None"),
                              RFrag("b")>>)>>)>>, "None"),
    RFrag("z")>>

\* [$f] { { @return 1 } }  { [f] }  z
\* -- a block that runs to its end around a call that returned a value from inside a block
PReturnInBlock ==
  <<RFuncDef("f", <<>>, <<RBlock(1, <<Elem(<<RReturnVal(<<RInt(1)>>)>>)>>, "None")>>),
    RBlock(2, <<Elem(<<RCall("f", <<>>, "None")>>)>>, "None"),
    RFrag("z")>>

\* [$g: a ? 3; b ? 4; c ? <b>; d?] { <a> <c> }  [g: 1]
\* -- a supplied argument, two omitted defaults (the second reads the first) and an
\*    omitted optional without a default
PDefaultsMixed ==
  <<RFuncDef("g", <<ParamDefault("a", <<RInt(3)>>), ParamDefault("b", <<RInt(4)>>),
                    ParamDefault("c", <<RGet(<<Name("b")>>)>>), Param("d", "Optional")>>,
             <<RGet(<<Name("a")>>), RGet(<<Name("c")>>)>>),
    RCall("g", <<Arg(<<RInt(1)>>)>>, "None")>>

\* <nope ? f>  z   -- a getter of an undefined variable with a fallback
PFallback ==
  <<RGetOr(<<Name("nope")>>, <<RFrag("f")>>), RFrag("z")>>

\* [$f] { <nope ? [f]> }  { [f] }   -- unbounded recursion through a getter's fallback
PFallbackDeep ==
  <<RFuncDef("f", <<>>, <<RGetOr(<<Name("nope")>>, <<RCall("f", <<>>, "None")>>)>>),
    RBlock(1, <<Elem(<<RCall("f", <<>>, "None")>>)>>, "None")>>

\* [$id: a] { <a> }  ![id: 1 |> id: []]  z   -- a sinked piped call
PPipedSink ==
  <<RFuncDef("id", <<Param("a", "Required")>>, <<RGet(<<Name("a")>>)>>),
    [k |-> "PipedCall", flag |-> "Sink",
     steps |-> <<Step("id", <<Arg(<<RInt(1)>>)>>), Step("id", <<Arg(<<RPipeValue>>)>>)>>],
    RFrag("z")>>

RClosure(name, capture_vars, body) ==
  [k |-> "FuncDef", body |-> body, capture_vars |-> capture_vars, is_const |-> FALSE,
   params |-> <<>>, path |-> RPath(<<Name(name)>>)]

\* <$x = 1> [$f] { <x = 2> }  [f] <x>   -- the closure writes, the defining scope reads
PCaptureWrite ==
  <<RDefTo("x", <<RInt(1)>>), RClosure("f", <<"x">>, <<RSet(<<Name("x")>>, <<RInt(2)>>)>>),
    RCall("f", <<>>, "None"), RGet(<<Name("x")>>)>>

\* <$x = 1> [$g] { <x> }  <x = 3> [g]   -- the defining scope writes, the closure reads
PCaptureRead ==
  <<RDefTo("x", <<RInt(1)>>), RClosure("g", <<"x">>, <<RGet(<<Name("x")>>)>>),
    RSet(<<Name("x")>>, <<RInt(3)>>), RCall("g", <<>>, "None")>>

\* <$x = 1> [$h] { <x> <x = 5> }  [h] [h]   -- the second call reads the first call's write
PCaptureCalls ==
  <<RDefTo("x", <<RInt(1)>>),
    RClosure("h", <<"x">>, <<RGet(<<Name("x")>>), RSet(<<Name("x")>>, <<RInt(5)>>)>>),
    RCall("h", <<>>, "None"), RCall("h", <<>>, "None")>>

\* <$x = 1> [![?]{ <x = 4> }]  <x>   -- an anonymous closure writes, the defining scope reads
PCaptureLambda ==
  <<RDefTo("x", <<RInt(1)>>),
    RCallExpr(<<RLambda(<<>>, <<RSet(<<Name("x")>>, <<RInt(4)>>)>>, <<"x">>)>>, <<>>, "None"),
    RGet(<<Name("x")>>)>>

StepTemporal(name, arguments) ==
  [target |-> [k |-> "Path", path |-> RPath(<<Name(name)>>)], arguments |-> arguments,
   flag |-> "None", is_temporal |-> TRUE]

ListNone == [k |-> "ListInit", elements |-> <<>>]

\* [$id: a] { <a> }  [id: @(: 1; 2) |> id: []]   -- a temporal step: two passes of the chain
PPipedTemporal ==
  <<RFuncDef("id", <<Param("a", "Required")>>, <<RGet(<<Name("a")>>)>>),
    [k |-> "PipedCall", flag |-> "None",
     steps |-> <<StepTemporal("id", <<ArgTemporal(<<List12>>, 0)>>),
                 Step("id", <<Arg(<<RPipeValue>>)>>)>>]>>

\* [$id: a] { <a> }  [id: @(:) |> id: []]   -- a temporal step over an empty list
PPipedEmpty ==
  <<RFuncDef("id", <<Param("a", "Required")>>, <<RGet(<<Name("a")>>)>>),
    [k |-> "PipedCall", flag |-> "None",
     steps |-> <<StepTemporal("id", <<ArgTemporal(<<ListNone>>, 0)>>),
                 Step("id", <<Arg(<<RPipeValue>>)>>)>>]>>

\* [$id: a] { <a> }  [id: @(:)]   -- a temporal call over an empty list
PTemporalEmpty ==
  <<RFuncDef("id", <<Param("a", "Required")>>, <<RGet(<<Name("a")>>)>>),
    RCallTemporal("id", <<ArgTemporal(<<ListNone>>, 0)>>, "None")>>

\* [$two: a; b] { <b> }  [two: @(:); @(: 1; 2)]   -- an empty and a non-empty temporal argument
PTemporalMixed ==
  <<RFuncDef("two", <<Param("a", "Required"), Param("b", "Required")>>, <<RGet(<<Name("b")>>)>>),
    RCallTemporal("two", <<ArgTemporal(<<ListNone>>, 0), ArgTemporal(<<List12>>, 1)>>, "None")>>

Programs ==
  <<PLiterals, PCall, PSinkReturn, PBlockReturnVal, PBlockReturn, PBreak, PContinue,
    PSinkBreakVal, PContinueVal, PReturnThenBreak, PReturnThenContinue,
    PTry, PTryHandler, PTryBadHandler, PTryArgs, POverflow, PTryOverflow,
    PCollections, PDynamicGet, PDynamicSet, PDynamicFail,
    PDefinitions, PDefaults, PPiped, PSpread, PWeighted, PSeparator, PPipeAttr,
    PUnsupported, PRequire, PReturnChain, PTryOk,
    PCaptureWrite, PCaptureRead, PCaptureCalls, PCaptureLambda,
    PPipedTemporal, PPipedEmpty, PTemporalEmpty, PTemporalMixed,
    PTryNestedOk, PReturnInBlock, PDefaultsMixed,
    PFallback, PFallbackDeep, PPipedSink>>

-----------------------------------------------------------------------------
(* run_inner *)

Start ==
  /\ pc = "init"
  /\ Commit(Ret(push_frame_unchecked(Machine, Programs[prog], TRUE, "FunctionBody")),
            "run_inner", "run")

\* `return Err(err)`: no unwind state is left
Surface ==
  /\ pc = "err"
  /\ unwinds = <<>>
  /\ pc' = "fail"
  /\ step' = "surface"
  /\ ev' = NoEvent
  /\ UNCHANGED <<parser, prog, call_stack, val_stack, block_stack, attr_stack, unwinds, globals, cells, err,
                 tick0>>

UnwindEvent(m, state, called) ==
  [op |-> "unwind", state |-> state, msg |-> err,
   before |-> [cs |-> call_stack, vs |-> val_stack, bs |-> block_stack, at |-> attr_stack,
               uw |-> unwinds],
   after  |-> [cs |-> m.cs, vs |-> m.vs, bs |-> m.bs, at |-> m.at, uw |-> m.uw],
   called |-> called.ev, e |-> called.err]

\* an unwind state without a handler: the error is dropped and the loop goes on
UnwindDiscard ==
  /\ pc = "err"
  /\ unwinds # <<>>
  /\ Last(unwinds).handler = <<>>
  /\ LET Discarded(m1) == Ret(LogAlways(m1, UnwindEvent(m1, Last(unwinds), m1)))
     IN Commit(Discarded(unwind(Machine)), "unwind", "run")

\* an unwind state with a handler: `call_func(handler, vec![message], None, false)?`
UnwindHandle ==
  /\ pc = "err"
  /\ unwinds # <<>>
  /\ Last(unwinds).handler # <<>>
  /\ LET Called(m1, m2) == LogAlways(m2, UnwindEvent(m1, Last(unwinds), m2))
         Handled(m1) ==
           Called(m1, call_func(m1, Last(unwinds).handler[1], <<VStr(err)>>, "None", FALSE))
         Write(m3) ==
           /\ call_stack' = m3.cs
           /\ val_stack' = m3.vs
           /\ block_stack' = m3.bs
           /\ attr_stack' = m3.at
           /\ unwinds' = m3.uw
           /\ globals' = m3.gl
           /\ cells' = m3.hp
           /\ err' = m3.err
           /\ ev' = m3.ev
           /\ step' = "unwind"
           /\ pc' = IF m3.err = "PANIC" THEN "panic"
                    ELSE IF m3.err # "" THEN "fail" ELSE "run"
           /\ UNCHANGED <<parser, prog, tick0>>
     IN Write(Handled(unwind(Machine)))

\* the loop ends on an empty call stack: Ok(pop_val().unwrap_or_default())
RunFinish ==
  /\ pc = "run"
  /\ call_stack = <<>>
  /\ pc' = "ok"
  /\ val_stack' = IF val_stack = <<>> THEN <<>> ELSE Front(val_stack)
  /\ step' = "finish"
  /\ ev' = [op |-> "finish", vals |-> val_stack]
  /\ UNCHANGED <<parser, prog, call_stack, block_stack, attr_stack, unwinds, globals, cells, err, tick0>>

\* debug_assert_eq!(val_stack.len(), 1): a build with debug assertions panics instead
DebugAssert ==
  /\ pc = "run"
  /\ call_stack = <<>>
  /\ Len(val_stack) # 1
  /\ pc' = "panic"
  /\ step' = "debug_assert"
  /\ ev' = [op |-> "panic", vals |-> val_stack]
  /\ UNCHANGED <<parser, prog, call_stack, val_stack, block_stack, attr_stack, unwinds, globals, cells, err,
                 tick0>>

Natives ==
  <<VarEntry("try", NativeFn("try", 1, 2), TRUE),
    VarEntry("error", NativeFn("error", 0, 1), TRUE),
    VarEntry("rep", NativeFn("rep", 1, 1), TRUE),
    VarEntry("sep", NativeFn("sep", 1, 1), TRUE),
    VarEntry("pipe", NativeFn("pipe", 1, 1), TRUE),
    VarEntry("require", NativeFn("require", 1, 1), TRUE)>>

-----------------------------------------------------------------------------
(* The parser (src/src/compiler/parser.rs)                                  *)
(*                                                                         *)
(* The token stream is abstracted to the tree the tokens spell: a source    *)
(* sequence is a list of items and a flag saying whether the input ends     *)
(* before the sequence's terminator.  The parser's state is one record:     *)
(*   var_stack      the ScopeMap of VarStats, bottom layer first            *)
(*   capture_stack  the capture frames, bottom first                        *)
(*   has_errors     the flag report_error sets                              *)
(*   problems       the messages of severity Error the reporter got, in order *)
(*   warnings       the warnings reported                                   *)
(*   hard           the function being modelled returns Err(())            *)
(*   end_type       SequenceEndType of the sequence just read               *)
(*   ret            the value the function being modelled returns           *)
(*   log            what the parser produced (history for the properties)   *)

\* struct VarStats; the spans are left out.
VarStats(id, is_const, writes, role) ==
  [id |-> id, is_const |-> is_const, writes |-> writes, reads |-> 0,
   has_fallible_read |-> FALSE, role |-> role]

add_write(v) == [v EXCEPT !.writes = @ + 1]

add_read(v, is_fallible_read) ==
  [v EXCEPT !.reads = @ + 1,
            !.has_fallible_read = @ \/ (v.role = "FallibleOptionalArgument" /\ is_fallible_read)]

(* quickscope::ScopeMap, as the parser uses it: a stack of layers over a    *)
(* bottom layer that is never popped; a layer is a list of VarStats with    *)
(* distinct identifiers.  An Option is a sequence of length 0 or 1.         *)
EmptyScopeMap == << <<>> >>

IndexIn(layer, id) ==
  IF \E k \in 1..Len(layer) : layer[k].id = id
  THEN CHOOSE k \in 1..Len(layer) : layer[k].id = id
  ELSE 0

push_layer(sm) == Append(sm, <<>>)

pop_layer(sm) == IF Len(sm) > 1 THEN SubSeq(sm, 1, Len(sm) - 1) ELSE sm

depth(sm) == Len(sm)

\* The index, from the bottom and starting at 1, of the topmost layer that holds `id` among
\* the layers at least `skip` below the top; 0 if there is none.
LayerOf(sm, id, skip) ==
  LET hs == {h \in 1..(Len(sm) - skip) : IndexIn(sm[h], id) # 0}
  IN IF hs = {} THEN 0 ELSE CHOOSE h \in hs : \A g \in hs : g <= h

StatsAt(sm, h, id) == sm[h][IndexIn(sm[h], id)]

get_parent_depth(sm, id, skip) ==
  LET h == LayerOf(sm, id, skip)
  IN IF h = 0 THEN <<>> ELSE << [v |-> StatsAt(sm, h, id), d |-> Len(sm) - h] >>

get_parent(sm, id, skip) ==
  LET h == LayerOf(sm, id, skip) IN IF h = 0 THEN <<>> ELSE <<StatsAt(sm, h, id)>>

get(sm, id) == get_parent(sm, id, 0)

depth_of(sm, id) ==
  LET h == LayerOf(sm, id, 0) IN IF h = 0 THEN <<>> ELSE <<Len(sm) - h>>

height_of(sm, id) ==
  LET h == LayerOf(sm, id, 0) IN IF h = 0 THEN <<>> ELSE <<h - 1>>

unwrap_or_default(opt) == IF opt = <<>> THEN 0 ELSE opt[1]

\* get_mut / get_parent_mut followed by an update of the VarStats found.
UpdateStats(sm, id, skip, v) ==
  LET h == LayerOf(sm, id, skip)
  IN IF h = 0 THEN sm ELSE [sm EXCEPT ![h][IndexIn(sm[h], id)] = v]

DefineAt(sm, h, v) ==
  LET k == IndexIn(sm[h], v.id)
  IN IF k = 0 THEN [sm EXCEPT ![h] = Append(@, v)] ELSE [sm EXCEPT ![h][k] = v]

define(sm, v) == DefineAt(sm, Len(sm), v)

\* define_parent: the layer `skip` below the top, the bottom layer if there are fewer.
define_parent(sm, v, skip) ==
  DefineAt(sm, IF Len(sm) - skip < 1 THEN 1 ELSE Len(sm) - skip, v)

iter_top(sm) == sm[Len(sm)]

NoParser ==
  [phase |-> "none", src |-> <<>>, pos |-> 0, var_stack |-> EmptyScopeMap, capture_stack |-> <<>>,
   has_errors |-> FALSE, problems |-> <<>>, warnings |-> {}, hard |-> FALSE, end_type |-> "",
   ret |-> FALSE, log |-> <<>>]

has_errors(p) == p.has_errors

report_error_unflagged(p, problem) == [p EXCEPT !.problems = Append(@, problem)]

report_error(p, problem) == [p EXCEPT !.has_errors = TRUE, !.problems = Append(@, problem)]

report_warning(p, problem, id) == [p EXCEPT !.warnings = @ \cup {<<problem, id>>}]

\* a panic: parse() does not return
Panicked(p) == p.end_type = "unreachable!()"

\* `return Err(())` after report_error
HardError(p, problem) == [report_error(p, problem) EXCEPT !.hard = TRUE]

Record(p, event) == [p EXCEPT !.log = Append(@, event)]

\* An access path that names a variable: its root identifier and its kind.
VarPath(id, kind) == [var_name |-> <<id>>, kind |-> kind]

\* RantParser::track_variable
track_variable(p, id, access_kind, is_const, role) ==
  LET sm == p.var_stack
      requested_depth ==
        CASE access_kind.k = "Local"   -> 0
          [] access_kind.k = "Descope" -> access_kind.n
          [] OTHER                     -> depth(sm)
      prev_tracker ==
        CASE access_kind.k = "Local"   -> get(sm, id)
          [] OTHER -> get_parent(sm, id, requested_depth)
      found_depth ==
        CASE access_kind.k = "Local"   -> depth_of(sm, id)
          [] OTHER -> LET f == get_parent_depth(sm, id, requested_depth)
                      IN IF f = <<>> THEN <<>> ELSE <<f[1].d>>
      redef == /\ prev_tracker # <<>>
               /\ prev_tracker[1].is_const
               /\ found_depth = <<requested_depth>>
      v == VarStats(id, is_const, 0, role)
      p1 == IF redef THEN report_error(p, "ConstantRedefinition") ELSE p
      defined ==
        CASE access_kind.k = "Local"   -> define(sm, v)
          [] access_kind.k = "Descope" -> define_parent(sm, v, access_kind.n)
          [] OTHER                     -> define_parent(sm, v, depth(sm))
  IN Record([p1 EXCEPT !.var_stack = defined],
            [op |-> "track_variable", id |-> id, kind |-> access_kind, is_const |-> is_const,
             before |-> sm, reported |-> redef])

\* the write test of track_variable_access, never met
ConstantWrittenNever(tracker, is_write) == FALSE

\* the write test of track_variable_access: `if is_write { .. if tracker.is_const`
ConstantWritten(tracker, is_write) == tracker # <<>> /\ is_write /\ tracker[1].is_const

\* a track_variable_access that would capture every local identifier, the function's own too
track_variable_access_own(p, path, is_write, fallback_hint) ==
  LET sm == p.var_stack
      id == path.var_name[1]
      skip == CASE path.kind.k = "Local"   -> 0
                [] path.kind.k = "Descope" -> path.kind.n
                [] OTHER                   -> depth(sm)
      tracker == IF path.var_name = <<>> THEN <<>> ELSE get_parent(sm, id, skip)
      reassigned == ConstantWritten(tracker, is_write)
      read == IF tracker = <<>> THEN <<>> ELSE <<add_read(tracker[1], ~fallback_hint)>>
      warned == /\ read # <<>> /\ ~is_write
                /\ read[1].has_fallible_read /\ read[1].role = "FallibleOptionalArgument"
      sm1 == IF tracker = <<>> THEN sm
             ELSE UpdateStats(sm, id, skip, IF is_write THEN add_write(tracker[1]) ELSE read[1])
      p1 == IF reassigned THEN report_error(p, "ConstantReassignment")
            ELSE IF warned THEN report_warning(p, "FallibleOptionalArgAccess", id)
            ELSE p
      top == Len(p.capture_stack)
      captured == /\ path.kind.k = "Local"
                  /\ top > 0
                  /\ path.var_name # <<>>
      cs1 == IF captured THEN [p.capture_stack EXCEPT ![top].captures = @ \cup {id}]
             ELSE p.capture_stack
  IN Record([p1 EXCEPT !.var_stack = sm1, !.capture_stack = cs1],
            [op |-> "track_variable_access", path |-> path, is_write |-> is_write,
             before |-> sm, captures_before |-> p.capture_stack, captures |-> cs1,
             reported |-> reassigned])

\* RantParser::track_variable_access
track_variable_access(p, path, is_write, fallback_hint) ==
  LET sm == p.var_stack
      id == path.var_name[1]
      skip == CASE path.kind.k = "Local"   -> 0
                [] path.kind.k = "Descope" -> path.kind.n
                [] OTHER                   -> depth(sm)
      tracker == IF path.var_name = <<>> THEN <<>> ELSE get_parent(sm, id, skip)
      reassigned == ConstantWritten(tracker, is_write)
      read == IF tracker = <<>> THEN <<>> ELSE <<add_read(tracker[1], ~fallback_hint)>>
      warned == /\ read # <<>> /\ ~is_write
                /\ read[1].has_fallible_read /\ read[1].role = "FallibleOptionalArgument"
      sm1 == IF tracker = <<>> THEN sm
             ELSE UpdateStats(sm, id, skip, IF is_write THEN add_write(tracker[1]) ELSE read[1])
      p1 == IF reassigned THEN report_error(p, "ConstantReassignment")
            ELSE IF warned THEN report_warning(p, "FallibleOptionalArgAccess", id)
            ELSE p
      top == Len(p.capture_stack)
      captured == /\ path.kind.k = "Local"
                  /\ top > 0
                  /\ path.var_name # <<>>
                  /\ unwrap_or_default(height_of(sm1, id)) < p.capture_stack[top].height
      cs1 == IF captured THEN [p.capture_stack EXCEPT ![top].captures = @ \cup {id}]
             ELSE p.capture_stack
  IN Record([p1 EXCEPT !.var_stack = sm1, !.capture_stack = cs1],
            [op |-> "track_variable_access", path |-> path, is_write |-> is_write,
             before |-> sm, captures_before |-> p.capture_stack, captures |-> cs1,
             reported |-> reassigned])

\* RantParser::analyze_top_vars
analyze_top_vars(p) ==
  LET top == iter_top(p.var_stack)
      Unused(role) == {top[k].id : k \in {j \in 1..Len(top) : top[j].reads = 0 /\ top[j].role = role}}
  IN [p EXCEPT !.warnings = @ \cup {<<"UnusedVariable", id>> : id \in Unused("Normal")}
                              \cup {<<"UnusedParameter", id>> : id \in Unused("Argument")}
                              \cup {<<"UnusedFunction", id>> : id \in Unused("Function")}]

\* Varity::is_valid_order with (Optional, VariadicPlus) let through
is_valid_order_lax(first, second) ==
  <<first, second>> \in
    {<<"Required", "Required">>, <<"Required", "Optional">>, <<"Required", "VariadicStar">>,
     <<"Required", "VariadicPlus">>, <<"Optional", "Optional">>, <<"Optional", "VariadicStar">>,
     <<"Optional", "VariadicPlus">>}

\* Varity::is_valid_order
is_valid_order(first, second) ==
  <<first, second>> \in
    {<<"Required", "Required">>, <<"Required", "Optional">>, <<"Required", "VariadicStar">>,
     <<"Required", "VariadicPlus">>, <<"Optional", "Optional">>, <<"Optional", "VariadicStar">>}

(* Source trees.  `eof` says that the input ends inside the sequence, before *)
(* the token that would close it.                                           *)
SrcSeq(items) == [items |-> items, eof |-> FALSE]
SrcCut(items) == [items |-> items, eof |-> TRUE]
SFrag == [t |-> "Fragment"]
SPipeValue == [t |-> "PipeValue"]
SBlock(elems) == [t |-> "Block", elems |-> elems]
SDef(kind, id, is_const) ==
  [t |-> "Accessor", a |-> "def", kind |-> kind, id |-> id, is_const |-> is_const,
   has_rhs |-> FALSE, rhs |-> SrcSeq(<<>>)]
SDefTo(kind, id, is_const, rhs) ==
  [t |-> "Accessor", a |-> "def", kind |-> kind, id |-> id, is_const |-> is_const,
   has_rhs |-> TRUE, rhs |-> rhs]
SGet(kind, id) ==
  [t |-> "Accessor", a |-> "get", kind |-> kind, id |-> id, is_const |-> FALSE,
   has_rhs |-> FALSE, rhs |-> SrcSeq(<<>>)]
SSet(kind, id, rhs) ==
  [t |-> "Accessor", a |-> "set", kind |-> kind, id |-> id, is_const |-> FALSE,
   has_rhs |-> TRUE, rhs |-> rhs]
SParam(name, varity) == [name |-> name, varity |-> varity, default |-> SrcSeq(<<>>)]
SFuncDef(kind, id, is_const, params, body) ==
  [t |-> "FuncAccess", f |-> "def", kind |-> kind, id |-> id, is_const |-> is_const,
   params |-> params, body |-> body]
SLambda(params, body) ==
  [t |-> "FuncAccess", f |-> "lambda", kind |-> Local, id |-> "", is_const |-> FALSE,
   params |-> params, body |-> body]
SCall(steps) == [t |-> "FuncAccess", f |-> "call", steps |-> steps]
SNamed(id, args) == [is_anonymous |-> FALSE, path |-> VarPath(id, Local), expr |-> SrcSeq(<<>>), args |-> args]
SAnon(expr, args) == [is_anonymous |-> TRUE, path |-> VarPath("", Local), expr |-> expr, args |-> args]

\* The argument fallback_pipe! inserts
PipeValueArg == [expr |-> SrcSeq(<<SPipeValue>>), spread_mode |-> "NoSpread"]
UserArg(src) == [expr |-> src, spread_mode |-> "NoSpread"]

\* The VarStats the pipe value gets in a piped step's scope
pipeval_stats == VarStats(PIPE_VALUE_NAME, TRUE, 1, "PipeValue")

(* The parsing functions call one another through Parse: Parse(p, "parse_block",      *)
(* <<elems, k>>) is parse_block(p, elems, k).  Then(v, F) is `let r = v; F(r)`.       *)
RECURSIVE Parse(_, _, _)

Then(v, F(_)) == CHOOSE x \in {F(r) : r \in {v}} : TRUE

\* RantParser::parse_sequence
parse_sequence(p, src) ==
  LET Leave(r) == [analyze_top_vars(r) EXCEPT !.var_stack = pop_layer(@)]
  IN Then(Parse([p EXCEPT !.var_stack = push_layer(@)], "parse_sequence_inner", <<src>>), Leave)

\* The PipeValue token in parse_sequence_inner
pipe_value_token(p) ==
  LET sm == p.var_stack
      pipeval == get(sm, PIPE_VALUE_NAME)
      top == Len(p.capture_stack)
      captured == /\ top > 0
                  /\ unwrap_or_default(height_of(sm, PIPE_VALUE_NAME)) < p.capture_stack[top].height
  IN IF pipeval # <<>>
     THEN [p EXCEPT !.var_stack = UpdateStats(sm, PIPE_VALUE_NAME, 0, add_read(pipeval[1], FALSE)),
                    !.capture_stack = IF captured
                                      THEN [@ EXCEPT ![top].captures = @ \cup {PIPE_VALUE_NAME}]
                                      ELSE @]
     ELSE report_error(p, "NothingToPipe")

\* One sequence item in parse_sequence_inner
parse_item(p, item) ==
  CASE item.t = "Fragment"   -> p
    [] item.t = "PipeValue"  -> pipe_value_token(p)
    [] item.t = "Block"      -> Parse(p, "parse_block", <<item.elems, 1>>)
    [] item.t = "FuncAccess" -> Parse(p, "parse_func_access", <<item>>)
    [] item.t = "Accessor"   -> Parse(p, "parse_accessor", <<item>>)

\* The item loop of parse_sequence_inner: an item's hard error ends it (`?`)
ParseItems(p, items, k) ==
  IF p.hard \/ k > Len(items) THEN p
  ELSE Then(Parse(p, "parse_item", <<items[k]>>), LAMBDA r : Parse(r, "ParseItems", <<items, k + 1>>))

\* RantParser::parse_sequence_inner
parse_sequence_inner(p, src) ==
  LET Ended(r) == IF r.hard THEN r
                  ELSE [r EXCEPT !.end_type = IF src.eof THEN "ProgramEnd" ELSE "Closed"]
  IN Then(Parse(p, "ParseItems", <<src.items, 1>>), Ended)

\* RantParser::parse_block, from element k on
parse_block(p, elems, k) ==
  LET After(r) ==
        IF r.hard THEN r
        ELSE IF r.end_type = "ProgramEnd" THEN HardError(r, "UnclosedBlock")
        ELSE IF k = Len(elems) THEN r
        ELSE Parse(r, "parse_block", <<elems, k + 1>>)
  IN Then(Parse(p, "parse_sequence", <<elems[k]>>), After)

\* The 'read_params loop of parse_func_params, from parameter i on
ParamLoop(p, params, i, last_varity, is_sig_variadic, params_set) ==
  IF i > Len(params) THEN p
  ELSE
    LET varity == params[i].varity
        is_param_variadic == IsVariadicVarity(varity)
        p1 == IF params[i].name \in params_set THEN report_error(p, "DuplicateParameter") ELSE p
        p2 == IF is_sig_variadic /\ is_param_variadic THEN report_error(p1, "MultipleVariadicParams")
              ELSE IF ~is_valid_order(last_varity, varity) THEN report_error(p1, "InvalidParamOrder")
              ELSE p1
        Rest(r) ==
          IF r.hard THEN r
          ELSE IF r.end_type = "ProgramEnd" THEN HardError(r, "UnclosedFunctionSignature")
          ELSE Parse(r, "ParamLoop", <<params, i + 1, varity, is_sig_variadic \/ is_param_variadic,
                                       params_set \cup {params[i].name}>>)
    IN IF varity = "Optional" THEN Then(Parse(p2, "parse_sequence", <<params[i].default>>), Rest)
       ELSE Then([p2 EXCEPT !.end_type = "Closed"], Rest)

\* RantParser::parse_func_params
parse_func_params(p, params) ==
  LET Done(r) ==
        Record(r, [op |-> "parse_func_params",
                   varities |-> [i \in 1..Len(params) |-> params[i].varity],
                   reported |-> SubSeq(r.problems, Len(p.problems) + 1, Len(r.problems))])
  IN Then(Parse(p, "ParamLoop", <<params, 1, "Required", FALSE, {}>>), Done)

RECURSIVE DefineParams(_, _, _)
DefineParams(sm, params, i) ==
  IF i > Len(params) THEN sm
  ELSE DefineParams(
         define(sm, VarStats(params[i].name, TRUE, 1,
                             IF params[i].varity = "Optional" /\ params[i].default.items = <<>>
                             THEN "FallibleOptionalArgument" ELSE "Argument")),
         params, i + 1)

\* RantParser::parse_func_body (a block body)
parse_func_body(p, params, body) ==
  LET Ended(r) ==
        IF r.hard THEN r
        ELSE IF r.end_type = "ProgramEnd" THEN HardError(r, "UnclosedFunctionBody")
        ELSE r
  IN Then(Parse([p EXCEPT !.var_stack = DefineParams(@, params, 1)], "parse_sequence_inner", <<body>>),
          Ended)

\* The closure parse_func_access hands to capture_pass: the signature and the body of a
\* definition, the body alone of a lambda.
ParseFunc(p, func, with_params) ==
  LET Body(r) == IF r.hard THEN r ELSE Parse(r, "parse_func_body", <<func.params, func.body>>)
  IN IF with_params THEN Then(Parse(p, "parse_func_params", <<func.params>>), Body)
     ELSE Body(p)

\* RantParser::capture_pass; the captures it returns are left in `ret`
capture_pass(p, func, with_params) ==
  LET capture_height == depth(p.var_stack)
      entered == [p EXCEPT !.capture_stack = Append(@, [height |-> capture_height, captures |-> {}]),
                           !.var_stack = push_layer(@)]
      Leave(r) ==
        IF r.hard THEN r
        ELSE LET capture_set == r.capture_stack[Len(r.capture_stack)].captures
             IN Record([analyze_top_vars(r) EXCEPT
                          !.var_stack = pop_layer(@),
                          !.capture_stack = SubSeq(@, 1, Len(@) - 1),
                          !.ret = capture_set],
                       [op |-> "capture_pass", popped |-> capture_set,
                        capture_height |-> capture_height, outer |-> pop_layer(r.var_stack)])
  IN Then(Parse(entered, "ParseFunc", <<func, with_params>>), Leave)

\* PipeScoped with the pipe value's reads ignored
PipeScopedUnread(p, src) ==
  LET Leave(r) ==
        IF r.hard THEN r
        ELSE [analyze_top_vars(r) EXCEPT !.var_stack = pop_layer(@), !.ret = FALSE]
  IN Then(Parse([p EXCEPT !.var_stack = define(push_layer(@), pipeval_stats)],
                "parse_sequence_inner", <<src>>), Leave)

\* A piped step's argument or function expression, read in a layer that holds the pipe
\* value; whether the pipe value was read is left in `ret`.
PipeScoped(p, src) ==
  LET Leave(r) ==
        IF r.hard THEN r
        ELSE [analyze_top_vars(r) EXCEPT
                !.var_stack = pop_layer(@),
                !.ret = get(r.var_stack, PIPE_VALUE_NAME)[1].reads > 0]
  IN Then(Parse([p EXCEPT !.var_stack = define(push_layer(@), pipeval_stats)],
                "parse_sequence_inner", <<src>>), Leave)

\* parse_args!: the arguments from the j-th on; is_pipeval_used is left in `ret`
ParseArgs(p, args, j, is_piped, is_pipeval_used) ==
  IF j > Len(args) THEN [p EXCEPT !.ret = is_pipeval_used]
  ELSE
    LET Next_(r) ==
          IF r.hard THEN r
          ELSE IF r.end_type = "ProgramEnd" THEN HardError(r, "UnclosedFunctionCall")
          ELSE Parse(r, "ParseArgs", <<args, j + 1, is_piped, is_pipeval_used \/ (is_piped /\ r.ret)>>)
    IN Then(IF is_piped THEN PipeScoped(p, args[j]) ELSE Parse(p, "parse_sequence", <<args[j]>>),
            Next_)

\* The `while !is_finished` loop of parse_func_access, from step k on
ParseSteps(p, steps, k, calls, is_piped) ==
  LET s == steps[k]
      last == k = Len(steps)
      user == [j \in 1..Len(s.args) |-> UserArg(s.args[j])]
      \* the end of the loop body
      Push(r, func_args) ==
        LET fcall == [target |-> IF s.is_anonymous THEN "Expression" ELSE "Path",
                      arguments |-> func_args, src |-> s]
        IN IF last
           THEN Record(r, [op |-> "call", is_piped |-> is_piped, steps |-> Append(calls, fcall)])
           ELSE Parse(r, "ParseSteps", <<steps, k + 1, Append(calls, fcall), TRUE>>)
      \* fallback_pipe!, then the access to a named function is recorded
      Finish(r) ==
        IF r.hard THEN r
        ELSE Then(IF s.is_anonymous THEN r ELSE track_variable_access(r, s.path, FALSE, FALSE),
                  LAMBDA r1 : Push(r1, IF Len(calls) > 0 /\ ~r.ret THEN <<PipeValueArg>> \o user
                                       ELSE user))
      \* an anonymous call's function expression has been read, or a named call's path
      Args(r) ==
        IF r.hard THEN r
        ELSE IF s.is_anonymous /\ r.end_type = "ProgramEnd"
        THEN [r EXCEPT !.hard = TRUE, !.end_type = "unreachable!()"]
        ELSE Then(Parse([r EXCEPT !.ret = s.is_anonymous /\ is_piped /\ r.ret],
                        "ParseArgs", <<s.args, 1, is_piped, s.is_anonymous /\ is_piped /\ r.ret>>),
                  Finish)
  IN Then(IF ~s.is_anonymous THEN p
          ELSE IF is_piped THEN PipeScoped(p, s.expr)
          ELSE Parse(p, "parse_sequence", <<s.expr>>),
          Args)

\* RantParser::parse_func_access
parse_func_access(p, item) ==
  LET Def(r) ==
        IF r.hard THEN r
        ELSE Record(track_variable(r, item.id, item.kind, item.is_const, "Function"),
                    [op |-> "FuncDef", path |-> VarPath(item.id, item.kind), capture_vars |-> r.ret])
      Lam(r) ==
        IF r.hard THEN r
        ELSE Record(r, [op |-> "Lambda", capture_vars |-> r.ret])
      Built(r) == IF item.f = "def" THEN Def(r) ELSE Lam(r)
      Captured(r) ==
        IF r.hard THEN r
        ELSE Then(Parse(r, "capture_pass", <<item, item.f = "def">>), Built)
  IN CASE item.f = "def"    -> Captured(p)
       [] item.f = "lambda" -> Then(Parse(p, "parse_func_params", <<item.params>>), Captured)
       [] item.f = "call"   -> Parse(p, "ParseSteps", <<item.steps, 1, <<>>, FALSE>>)

\* RantParser::parse_accessor, for one accessor
parse_accessor(p, item) ==
  LET path == VarPath(item.id, item.kind)
      Closed(r) == IF r.end_type = "ProgramEnd" THEN HardError(r, "UnclosedVariableAccess") ELSE r
      Tracked(r) ==
        IF r.hard THEN r
        ELSE Then(CASE item.a = "def" -> track_variable(r, item.id, item.kind, item.is_const, "Normal")
                    [] item.a = "get" -> track_variable_access(r, path, FALSE, FALSE)
                    [] item.a = "set" -> Record(track_variable_access(r, path, TRUE, FALSE),
                                                [op |-> "Set", path |-> path]),
                  Closed)
  IN IF item.has_rhs THEN Then(Parse(p, "parse_sequence", <<item.rhs>>), Tracked)
     ELSE Tracked([p EXCEPT !.end_type = "Closed"])

Parse(p, f, a) ==
  CASE f = "parse_sequence"       -> parse_sequence(p, a[1])
    [] f = "parse_sequence_inner" -> parse_sequence_inner(p, a[1])
    [] f = "parse_item"           -> parse_item(p, a[1])
    [] f = "ParseItems"           -> ParseItems(p, a[1], a[2])
    [] f = "parse_block"          -> parse_block(p, a[1], a[2])
    [] f = "ParamLoop"            -> ParamLoop(p, a[1], a[2], a[3], a[4], a[5])
    [] f = "parse_func_params"    -> parse_func_params(p, a[1])
    [] f = "parse_func_body"      -> parse_func_body(p, a[1], a[2])
    [] f = "ParseFunc"            -> ParseFunc(p, a[1], a[2])
    [] f = "capture_pass"         -> capture_pass(p, a[1], a[2])
    [] f = "ParseArgs"            -> ParseArgs(p, a[1], a[2], a[3], a[4])
    [] f = "ParseSteps"           -> ParseSteps(p, a[1], a[2], a[3], a[4])
    [] f = "parse_func_access"    -> parse_func_access(p, a[1])
    [] f = "parse_accessor"       -> parse_accessor(p, a[1])

(* Sources the parser is run on *)

\* the longest signature, the deepest nesting of blocks and the longest pipe chain explored
MaxSigLen == 3
MaxNest == 2
MaxSteps == 3

SrcParamNames == <<"a", "b", "c", "d", "e", "f">>

SrcParams(sig) == [i \in 1..Len(sig) |-> SParam(SrcParamNames[i], sig[i])]

SourceSignatures ==
  UNION {[1..n -> {"Required", "Optional", "VariadicStar", "VariadicPlus"}] : n \in 0..MaxSigLen}

\* [$f: a; b?; c*] {} and [?: a; b?; c*] {} for every signature
SignatureSources ==
  {<<SFuncDef(Local, "f", FALSE, SrcParams(sig), SrcSeq(<<>>))>> : sig \in SourceSignatures}
  \cup {<<SLambda(SrcParams(sig), SrcSeq(<<>>))>> : sig \in SourceSignatures}
  \cup {<<SFuncDef(Local, "f", FALSE, <<SParam("a", "Required"), SParam("a", "Required")>>, SrcSeq(<<>>))>>}

AccessKinds == {Local, Descope(1), Descope(2), ExplicitGlobal}

\* <$x>, <%x>, [$x] {} and [%x] {} under every access kind
Definitions ==
  {SDef(kind, "x", is_const) : kind \in AccessKinds, is_const \in BOOLEAN}
  \cup {SFuncDef(kind, "x", is_const, <<>>, SrcSeq(<<>>)) : kind \in AccessKinds, is_const \in BOOLEAN}

RECURSIVE Nest(_, _)
Nest(item, n) == IF n = 0 THEN item ELSE SBlock(<<SrcSeq(<<Nest(item, n - 1)>>)>>)

\* two definitions of x: side by side, the second in a nested block, the second in a
\* function body, both in one block, and a definition of a parameter's name in the body
DefinitionSources ==
  UNION {{<<d1, d2>>,
          <<d1, Nest(d2, 1)>>,
          <<d1, SFuncDef(Local, "g", FALSE, <<>>, SrcSeq(<<d2>>))>>,
          <<SBlock(<<SrcSeq(<<d1, d2>>)>>)>>} : d1 \in Definitions, d2 \in Definitions}
  \cup {<<SFuncDef(Local, "g", FALSE, <<SParam("x", "Required")>>, SrcSeq(<<d2>>))>> : d2 \in Definitions}

\* a definition of x and a setter of x under every access kind, the setter up to MaxNest
\* blocks deep or in a function body; a setter of a parameter
SetterSources ==
  UNION {{<<SDef(k1, "x", is_const), Nest(SSet(k2, "x", SrcSeq(<<SFrag>>)), n)>> : n \in 0..MaxNest}
         \cup {<<SDef(k1, "x", is_const),
                 SFuncDef(Local, "g", FALSE, <<>>, SrcSeq(<<SSet(k2, "x", SrcSeq(<<SFrag>>))>>))>>,
               <<SBlock(<<SrcSeq(<<SDef(k1, "x", is_const), Nest(SSet(k2, "x", SrcSeq(<<SFrag>>)), 1)>>)>>)>>}
           : k1 \in AccessKinds, k2 \in AccessKinds, is_const \in BOOLEAN}
  \cup {<<SFuncDef(Local, "g", FALSE, <<SParam("x", "Required")>>,
                   SrcSeq(<<SSet(Local, "x", SrcSeq(<<SFrag>>))>>))>>,
        <<SSet(Local, "y", SrcSeq(<<SFrag>>))>>}

ArgText  == SrcSeq(<<SFrag>>)
ArgPipe  == SrcSeq(<<SPipeValue>>)

\* the steps pipe chains are made of
StepShapes ==
  {SNamed("f", <<>>),
   SNamed("f", <<ArgText>>),
   SNamed("f", <<ArgPipe>>),
   SNamed("f", <<ArgText, SrcSeq(<<SLambda(<<>>, ArgPipe)>>)>>),
   SNamed("f", <<SrcSeq(<<SCall(<<SNamed("h", <<ArgPipe>>)>>)>>)>>),
   SNamed("f", <<SrcSeq(<<SCall(<<SNamed("h", <<>>), SNamed("k", <<ArgPipe>>)>>)>>)>>),
   SAnon(SrcSeq(<<SGet(Local, "g")>>), <<>>),
   SAnon(SrcSeq(<<SGet(Local, "g")>>), <<ArgPipe>>),
   SAnon(ArgPipe, <<>>),
   SAnon(ArgPipe, <<ArgText>>)}

\* [f |> g: x |> ![]: y] ...
PipeSources ==
  {<<SCall(steps)>> : steps \in UNION {[1..n -> StepShapes] : n \in 1..MaxSteps}}

UnclosedBlock == SBlock(<<SrcCut(<<>>)>>)

\* sources the input ends in the middle of
TruncatedSources ==
  {<<SBlock(<<SrcCut(<<SFrag>>)>>)>>,
   <<SFuncDef(Local, "f", FALSE, <<>>, SrcCut(<<SFrag>>))>>,
   <<SLambda(<<>>, SrcCut(<<>>))>>,
   <<SFuncDef(Local, "f", FALSE, <<[SParam("a", "Optional") EXCEPT !.default = SrcCut(<<>>)]>>, SrcSeq(<<>>))>>,
   <<SCall(<<SNamed("f", <<SrcCut(<<SFrag>>)>>)>>)>>,
   <<SCall(<<SNamed("f", <<>>), SNamed("g", <<SrcCut(<<SFrag>>)>>)>>)>>,
   <<SCall(<<SNamed("f", <<>>), SNamed("g", <<SrcSeq(<<UnclosedBlock>>)>>)>>)>>,
   <<SCall(<<SNamed("f", <<>>), SAnon(SrcSeq(<<UnclosedBlock>>), <<>>)>>)>>,
   <<SCall(<<SAnon(SrcCut(<<>>), <<>>)>>)>>,
   <<SSet(Local, "x", SrcCut(<<SFrag>>))>>,
   <<SDefTo(Local, "x", TRUE, SrcCut(<<>>))>>,
   <<SDefTo(Local, "x", TRUE, SrcSeq(<<SFrag>>)), SSet(Local, "x", SrcSeq(<<UnclosedBlock>>))>>,
   <<SDef(Local, "x", TRUE),
     SBlock(<<SrcSeq(<<SFuncDef(Local, "f", FALSE, <<>>,
                                SrcCut(<<SSet(Local, "x", SrcSeq(<<SFrag>>))>>))>>)>>)>>,
   <<SFuncDef(Local, "f", FALSE, <<>>,
              SrcSeq(<<SLambda(<<>>, SrcSeq(<<SGet(Local, "x"), UnclosedBlock>>))>>))>>}

\* functions that read variables of the scope they are defined in
CaptureSources ==
  {<<SFrag, SPipeValue>>,
   <<SDef(Local, "x", FALSE),
     SFuncDef(Local, "f", FALSE, <<SParam("a", "Required")>>,
              SrcSeq(<<SGet(Local, "x"), SGet(Local, "a")>>))>>,
   <<SDef(Local, "x", FALSE),
     SFuncDef(Local, "f", FALSE, <<SParam("a", "Required")>>,
              SrcSeq(<<SDef(Local, "y", FALSE),
                       SLambda(<<>>, SrcSeq(<<SGet(Local, "x"), SGet(Local, "a"), SGet(Local, "y")>>))>>))>>,
   <<SDef(Local, "x", FALSE),
     SBlock(<<SrcSeq(<<SLambda(<<>>, SrcSeq(<<SGet(Descope(1), "x"), SSet(Local, "x", ArgText)>>))>>),
              SrcSeq(<<SLambda(<<>>, SrcSeq(<<SGet(ExplicitGlobal, "x")>>))>>)>>)>>,
   <<SLambda(<<SParam("a", "Optional")>>, SrcSeq(<<SGet(Local, "a"), SGet(Local, "z")>>))>>,
   <<SDef(Local, "y", FALSE),
     SFuncDef(Local, "g", FALSE, <<>>, SrcSeq(<<SDef(Local, "y", FALSE), SGet(Local, "y")>>))>>,
   <<SFuncDef(Local, "f", FALSE, <<>>, SrcSeq(<<SCall(<<SNamed("f", <<>>)>>)>>)),
     SCall(<<SNamed("f", <<>>), SAnon(SrcSeq(<<SLambda(<<>>, ArgPipe)>>), <<>>)>>)>>}

\* sources with an error the parser recovers from, and more input after it
RecoverableSources ==
  {<<SDef(Local, "x", TRUE), SSet(Local, "x", ArgText), SSet(Local, "x", ArgText)>>,
   <<SFuncDef(Local, "f", FALSE, <<SParam("a", "VariadicStar"), SParam("b", "Required")>>, SrcSeq(<<>>)),
     SCall(<<SNamed("f", <<ArgText>>)>>)>>,
   <<SDef(Local, "x", TRUE), SDef(Local, "x", TRUE), UnclosedBlock>>}

Sources ==
  SignatureSources \cup DefinitionSources \cup SetterSources \cup PipeSources
  \cup TruncatedSources \cup CaptureSources \cup RecoverableSources

Init ==
  /\ pc = "init"
  /\ prog \in 1..Len(Programs)
  /\ call_stack = <<>>
  /\ val_stack = <<>>
  /\ block_stack = <<>>
  /\ attr_stack = <<DefaultAttrs>>
  /\ unwinds = <<>>
  /\ globals = Natives
  /\ cells = <<>>
  /\ err = ""
  /\ tick0 = 0
  /\ parser = NoParser
  /\ step = "init"
  /\ ev = NoEvent

Next ==
  \/ Start \/ TickStart \/ IntentsFinished \/ FrameDone
  \/ Surface \/ UnwindDiscard \/ UnwindHandle \/ RunFinish \/ DebugAssert
  \/ PrintLast \/ ReturnLast \/ ContinueLast \/ BreakLast \/ CheckBlock
  \/ BuildWeightedBlock \/ DefVar \/ BuildDynamicGetter \/ GetValue
  \/ CreateDefaultArgs \/ Invoke \/ InvokePipeStep \/ CallTemporal \/ Call
  \/ BuildDynamicSetter \/ SetValue \/ BuildList \/ BuildMap \/ ImportLastAsModule
  \/ RuntimeCall \/ DropStaleUnwinds
  \/ ListInit \/ MapInit \/ Block \/ DefVarNode \/ DefConst \/ Get \/ DepthNode \/ Set
  \/ FuncDef \/ Lambda \/ FuncCall \/ PipedCall \/ PipeValue \/ DebugCursor \/ Fragment
  \/ Whitespace \/ Integer \/ Float \/ EmptyValue \/ Boolean \/ Nop
  \/ Return \/ Continue \/ Break \/ Unsupported

Spec == Init /\ [][Next]_vars

-----------------------------------------------------------------------------
(* The parser run on its own: parse() over every source in Sources, one     *)
(* top-level item per step.  The VM stands still.                           *)

ParseInit ==
  /\ pc = "init"
  /\ prog = 1
  /\ call_stack = <<>>
  /\ val_stack = <<>>
  /\ block_stack = <<>>
  /\ attr_stack = <<DefaultAttrs>>
  /\ unwinds = <<>>
  /\ globals = Natives
  /\ cells = <<>>
  /\ err = ""
  /\ tick0 = 0
  /\ parser = NoParser
  /\ step = "init"
  /\ ev = NoEvent

VMIdle ==
  UNCHANGED <<pc, prog, call_stack, val_stack, block_stack, attr_stack, unwinds, globals, cells,
              err, tick0, step, ev>>

\* RantParser::new and the entry of parse(): parse_sequence pushes the top-level layer
ParseBegin ==
  /\ parser.phase = "none"
  /\ \E src \in Sources :
       parser' = [NoParser EXCEPT !.phase = "items", !.src = src, !.pos = 1,
                                  !.var_stack = push_layer(@)]
  /\ VMIdle

\* One item of the top-level sequence
TopItem(t) ==
  /\ parser.phase = "items"
  /\ ~parser.hard
  /\ parser.pos <= Len(parser.src)
  /\ parser.src[parser.pos].t = t
  /\ parser' = [Parse(parser, "parse_item", <<parser.src[parser.pos]>>) EXCEPT
                  !.pos = @ + 1, !.ret = FALSE]
  /\ VMIdle

ParseFragment == TopItem("Fragment")

ParsePipeValue == TopItem("PipeValue")

ParseBlock == TopItem("Block")

ParseFuncAccess == TopItem("FuncAccess")

ParseAccessor == TopItem("Accessor")

\* The end of parse(): parse_sequence pops the top-level layer, parse() maps the result
ParseEnd ==
  /\ parser.phase = "items"
  /\ parser.hard \/ parser.pos > Len(parser.src)
  /\ parser' = IF Panicked(parser) THEN [parser EXCEPT !.phase = "Panic"]
               ELSE [analyze_top_vars(parser) EXCEPT
                       !.var_stack = pop_layer(@),
                       !.phase = IF parser.hard THEN "Err"
                                 ELSE IF has_errors(parser) THEN "Err"
                                 ELSE "Ok"]
  /\ VMIdle

ParseNext ==
  \/ ParseBegin \/ ParseFragment \/ ParsePipeValue \/ ParseBlock \/ ParseFuncAccess
  \/ ParseAccessor \/ ParseEnd

ParseSpec == ParseInit /\ [][ParseNext]_vars

-----------------------------------------------------------------------------
(* parse_sequence_inner, token by token (src/src/compiler/parser.rs 284-897).       *)
(*                                                                                   *)
(* The tokens of one sequence are read one per step.  A token that opens a nested    *)
(* construct ({, [, <, (, @) stands for the whole construct, which the nested        *)
(* parsing function reads up to its own closing token.  The state is one record:     *)
(*   mode             the SequenceParseMode the sequence is parsed in                *)
(*   next_print_flag  the pending print flag (last_print_flag_span is Some exactly   *)
(*                    while a flag is pending: both are set together, and every      *)
(*                    take() of the span is followed by the clearing of the flag)    *)
(*   outer            the pending flags of the enclosing parse_sequence_inner calls  *)
(*                    that wait for a charm's sequence (@return ...), innermost last *)
(*   tokens           the tokens read so far                                         *)
(*   flag_before      next_print_flag when the last token was read                   *)
(*   end_type         the SequenceEndType returned, "" while the loop runs           *)
(*   problems         the errors reported                                            *)

SequenceParseModes ==
  {"TopLevel", "BlockElement", "FunctionArg", "FunctionBodyBlock", "DynamicKey",
   "AnonFunctionExpr", "VariableAssignment", "AccessorFallbackValue", "ParamDefaultValue",
   "CollectionInit", "SingleItem"}

\* the longest run of tokens explored
MaxTokens == 3

NoScan ==
  [phase |-> "none", mode |-> "", next_print_flag |-> "None", outer |-> <<>>, tokens |-> <<>>,
   flag_before |-> "None", end_type |-> "", problems |-> <<>>]

ScanError(s, problem) == [s EXCEPT !.problems = Append(@, problem)]

\* return Ok(ParsedSequence { end_type, .. }); a charm's caller checks its own dangling
\* flag and returns the same end_type
RECURSIVE ReturnSequence(_, _)
ReturnSequence(s, end_type) ==
  IF s.outer = <<>> THEN [s EXCEPT !.phase = "done", !.end_type = end_type]
  ELSE LET flag == s.outer[Len(s.outer)]
           up == [s EXCEPT !.outer = SubSeq(@, 1, Len(@) - 1), !.next_print_flag = flag]
       IN ReturnSequence(IF flag = "Hint" THEN ScanError(up, "InvalidHint")
                         ELSE IF flag = "Sink" THEN ScanError(up, "InvalidSink")
                         ELSE up, end_type)

\* check_dangling_printflags!
check_dangling_printflags(s) ==
  IF s.next_print_flag = "Hint" THEN ScanError(s, "InvalidHint")
  ELSE IF s.next_print_flag = "Sink" THEN ScanError(s, "InvalidSink")
  ELSE s

\* the end of the loop body: SingleItem returns, every other mode clears the flag
LoopEnd(s) ==
  IF s.phase = "done" THEN s
  ELSE IF s.mode = "SingleItem" THEN ReturnSequence(s, "SingleItemEnd")
  ELSE [s EXCEPT !.next_print_flag = "None"]

\* no_flags!({ .. }): the body runs only if no flag is pending
no_flags(s, Body(_)) ==
  IF s.next_print_flag = "None" THEN Body(s)
  ELSE ScanError(s, IF s.next_print_flag = "Hint" THEN "InvalidHint" ELSE "InvalidSink")

\* no_flags!(on { .. }): the element is read, a pending flag is an error
no_flags_on(s) ==
  IF s.next_print_flag = "None" THEN s
  ELSE ScanError(s, IF s.next_print_flag = "Hint" THEN "InvalidHintOn" ELSE "InvalidSinkOn")

Read(s, token) == [s EXCEPT !.tokens = Append(@, token), !.flag_before = s.next_print_flag]

unexpected_token_error(s) == ScanError(s, "UnexpectedToken")

\* the arms of `match token`, each with the `match mode` inside it
HintArm(s) ==
  IF s.next_print_flag = "None" THEN [s EXCEPT !.next_print_flag = "Hint"]
  ELSE LoopEnd(no_flags(s, LAMBDA r : r))

SinkArm(s) ==
  IF s.next_print_flag = "None" THEN [s EXCEPT !.next_print_flag = "Sink"]
  ELSE LoopEnd(no_flags(s, LAMBDA r : r))

PipeOpArm(s) ==
  LET Body(r) ==
        CASE r.mode = "FunctionArg" -> ReturnSequence(r, "FunctionArgEndToPipe")
          [] r.mode = "AnonFunctionExpr" -> ReturnSequence(r, "AnonFunctionExprToPipe")
          [] OTHER -> unexpected_token_error(r)
  IN LoopEnd(no_flags(s, Body))

VertBarArm(s) ==
  LET Body(r) ==
        CASE r.mode = "BlockElement" -> ReturnSequence(r, "BlockDelim")
          [] r.mode = "DynamicKey" -> ScanError(r, "DynamicKeyBlockMultiElement")
          [] r.mode = "FunctionBodyBlock" -> ScanError(r, "FunctionBodyBlockMultiElement")
          [] OTHER -> unexpected_token_error(r)
  IN LoopEnd(no_flags(s, Body))

RightBraceArm(s) ==
  LET Body(r) ==
        CASE r.mode = "BlockElement" -> ReturnSequence(r, "BlockEnd")
          [] r.mode = "FunctionBodyBlock" -> ReturnSequence(r, "FunctionBodyEnd")
          [] r.mode = "DynamicKey" -> ReturnSequence(r, "DynamicKeyEnd")
          [] OTHER -> unexpected_token_error(r)
  IN LoopEnd(no_flags(s, Body))

RightParenArm(s) ==
  LET Body(r) ==
        CASE r.mode = "CollectionInit" -> ReturnSequence(r, "CollectionInitEnd")
          [] OTHER -> unexpected_token_error(r)
  IN LoopEnd(no_flags(s, Body))

RightBracketArm(s) ==
  LET Body(r) ==
        CASE r.mode = "AnonFunctionExpr" -> ReturnSequence(r, "AnonFunctionExprNoArgs")
          [] r.mode = "FunctionArg" -> ReturnSequence(r, "FunctionArgEndBreak")
          [] r.mode = "ParamDefaultValue" -> ReturnSequence(r, "ParamDefaultValueSignatureEnd")
          [] OTHER -> unexpected_token_error(r)
  IN LoopEnd(no_flags(s, Body))

RightAngleArm(s) ==
  LET Body(r) ==
        CASE r.mode = "VariableAssignment" -> ReturnSequence(r, "VariableAccessEnd")
          [] r.mode = "AccessorFallbackValue" -> ReturnSequence(r, "AccessorFallbackValueToEnd")
          [] OTHER -> unexpected_token_error(r)
  IN LoopEnd(no_flags(s, Body))

ColonArmAssoc(s) ==
  LET Body(r) ==
        CASE r.mode = "AnonFunctionExpr" -> ReturnSequence(r, "AnonFunctionExprToArgs")
          [] r.mode = "BlockElement" -> ReturnSequence(r, "BlockAssocDelim")
          [] OTHER -> r
  IN LoopEnd(no_flags(s, Body))

\* `_ => emit_last_string!()`: in every mode but AnonFunctionExpr a colon is text
ColonArm(s) ==
  LET Body(r) ==
        CASE r.mode = "AnonFunctionExpr" -> ReturnSequence(r, "AnonFunctionExprToArgs")
          [] OTHER -> r
  IN LoopEnd(no_flags(s, Body))

SemicolonArm(s) ==
  LET Body(r) ==
        CASE r.mode = "FunctionArg" -> ReturnSequence(r, "FunctionArgEndNext")
          [] r.mode = "CollectionInit" -> ReturnSequence(r, "CollectionInitDelim")
          [] r.mode = "VariableAssignment" -> ReturnSequence(r, "VariableAssignDelim")
          [] r.mode = "AccessorFallbackValue" -> ReturnSequence(r, "AccessorFallbackValueToDelim")
          [] r.mode = "ParamDefaultValue" -> ReturnSequence(r, "ParamDefaultValueSeparator")
          [] OTHER -> r
  IN LoopEnd(no_flags(s, Body))

\* Fragment, Escape, Integer, Float, EmptyValue, StringLiteral and the printable symbols
FragmentArm(s) == LoopEnd(no_flags_on(s))

\* LeftBrace and LeftBracket: parse_block and parse_func_access take the flag
LeftBraceArm(s) == LoopEnd(s)

\* Keyword(@return | @continue | @break | @weight): the rest of the sequence is read by
\* parse_sequence(mode), whose end_type this call returns
CharmArm(s) == [s EXCEPT !.outer = Append(@, s.next_print_flag), !.next_print_flag = "None"]

\* the input ends: `while let Some(..) = self.reader.next()` falls out of the loop
EndOfInput(s) == ReturnSequence(check_dangling_printflags(s), "ProgramEnd")

ScanInit ==
  /\ pc = "init"
  /\ prog = 1
  /\ call_stack = <<>>
  /\ val_stack = <<>>
  /\ block_stack = <<>>
  /\ attr_stack = <<DefaultAttrs>>
  /\ unwinds = <<>>
  /\ globals = Natives
  /\ cells = <<>>
  /\ err = ""
  /\ tick0 = 0
  /\ parser = NoScan
  /\ step = "init"
  /\ ev = NoEvent

\* parse_sequence_inner(mode) is entered
ScanBegin ==
  /\ parser.phase = "none"
  /\ \E mode \in SequenceParseModes : parser' = [NoScan EXCEPT !.phase = "loop", !.mode = mode]
  /\ VMIdle

Scanning == parser.phase = "loop" /\ Len(parser.tokens) < MaxTokens

ScanHint == Scanning /\ parser' = HintArm(Read(parser, "Hint")) /\ VMIdle

ScanSink == Scanning /\ parser' = SinkArm(Read(parser, "Sink")) /\ VMIdle

ScanPipeOp == Scanning /\ parser' = PipeOpArm(Read(parser, "PipeOp")) /\ VMIdle

ScanVertBar == Scanning /\ parser' = VertBarArm(Read(parser, "VertBar")) /\ VMIdle

ScanRightBrace == Scanning /\ parser' = RightBraceArm(Read(parser, "RightBrace")) /\ VMIdle

ScanRightParen == Scanning /\ parser' = RightParenArm(Read(parser, "RightParen")) /\ VMIdle

ScanRightBracket == Scanning /\ parser' = RightBracketArm(Read(parser, "RightBracket")) /\ VMIdle

ScanRightAngle == Scanning /\ parser' = RightAngleArm(Read(parser, "RightAngle")) /\ VMIdle

ScanColon == Scanning /\ parser' = ColonArm(Read(parser, "Colon")) /\ VMIdle

ScanSemicolon == Scanning /\ parser' = SemicolonArm(Read(parser, "Semicolon")) /\ VMIdle

ScanFragment == Scanning /\ parser' = FragmentArm(Read(parser, "Fragment")) /\ VMIdle

ScanLeftBrace == Scanning /\ parser' = LeftBraceArm(Read(parser, "LeftBrace")) /\ VMIdle

ScanCharm == Scanning /\ parser' = CharmArm(Read(parser, "Keyword")) /\ VMIdle

ScanEnd == parser.phase = "loop" /\ parser' = EndOfInput(Read(parser, "EOF")) /\ VMIdle

ScanNext ==
  \/ ScanBegin \/ ScanHint \/ ScanSink \/ ScanPipeOp \/ ScanVertBar \/ ScanRightBrace
  \/ ScanRightParen \/ ScanRightBracket \/ ScanRightAngle \/ ScanColon \/ ScanSemicolon
  \/ ScanFragment \/ ScanLeftBrace \/ ScanCharm \/ ScanEnd

ScanSpec == ScanInit /\ [][ScanNext]_vars

-----------------------------------------------------------------------------
(* parse_access_path and the accessors built on it (parser.rs 1512-1724,             *)
(* 1183-1190, 1428-1429, 2164-2280), then the path at run time.                      *)
(*                                                                                   *)
(* A component is read per step from its first token (`head`) and, for the slice     *)
(* forms, the token after the colon (`tail`).  The state is one record:              *)
(*   caller     the function that called parse_access_path                           *)
(*   idparts    the components pushed so far                                         *)
(*   problems   the errors reported; hard: parse_access_path returned Err(())        *)
(*   use        "get" or "set": what the compiled node does with the path            *)
(*   outcome    the error of get_value / set_value ("" when it returned Ok)          *)
(*   vals       the values the path's dynamic expressions evaluated to, in source    *)
(*              order                                                                *)
(*   ran        what get_value / set_value did                                       *)

\* the most components read for one path, the rejected ones included
MaxPathLen == 3

NoPath ==
  [phase |-> "none", caller |-> "", idparts |-> <<>>, problems |-> <<>>, hard |-> FALSE,
   use |-> "", outcome |-> "", vals |-> <<>>, ran |-> [op |-> "none"]]

PathError(s, problem) == [s EXCEPT !.problems = Append(@, problem)]

PathHardError(s, problem) == [PathError(s, problem) EXCEPT !.hard = TRUE, !.phase = "Err"]

PushPart(s, comp) == [s EXCEPT !.idparts = Append(@, comp), !.phase = "rest"]

\* the expression of a dynamic key, an anonymous value or a dynamic slice bound
SomeExpr == <<>>

\* the token after the colon of a slice whose from-bound has been read
SliceTail(s, from, tail) ==
  CASE tail = "Integer" -> PushPart(s, SliceExpr("Between", from, Static(1)))
    [] tail = "LeftBrace" -> PushPart(s, SliceExpr("Between", from, Dynamic(SomeExpr)))
    [] tail = "Terminator" -> PushPart(s, SliceExpr("From", from, Static(0)))
    [] tail = "None" -> PathHardError(s, "UnclosedVariableAccess")
    [] OTHER -> PathError(s, "InvalidSliceBound")

\* the token after a colon that starts a component
ToTail(s, tail) ==
  CASE tail = "Integer" -> PushPart(s, SliceExpr("To", Static(0), Static(1)))
    [] tail = "LeftBrace" -> PushPart(s, SliceExpr("To", Static(0), Dynamic(SomeExpr)))
    [] tail = "Terminator" -> PushPart(s, SliceExpr("Full", Static(0), Static(0)))
    [] tail = "None" -> PathHardError(s, "UnclosedVariableAccess")
    [] OTHER -> PathError(s, "InvalidSliceBound")

\* "Parse the first part of the path"
FirstPart(s, head, tail) ==
  LET r == [s EXCEPT !.phase = "rest"]
  IN CASE head = "Bang" /\ s.caller = "parse_accessor" ->
            IF tail = "None" THEN PathHardError(r, "UnclosedVariableAccess")
            ELSE PushPart(r, AnonymousValue(SomeExpr))
       [] head = "Fragment" -> PushPart(r, Name("x"))
       [] head = "InvalidFragment" -> PathError(r, "InvalidIdentifier")
       [] head = "LeftBrace" ->
            IF tail = "None" THEN PathHardError(r, "UnclosedBlock")
            ELSE PushPart(r, DynamicKey(SomeExpr))
       [] head = "Colon" -> PathError(r, "AccessPathStartsWithSlice")
       [] head = "Integer" ->
            IF tail = "NoColon" THEN PathError(r, "AccessPathStartsWithIndex")
            ELSE PathError(r, "AccessPathStartsWithSlice")
       [] head = "None" -> PathHardError(r, "MissingIdentifier")
       [] OTHER -> PathError(r, "InvalidIdentifier")

\* "Parse the rest of the path": the component after a slash
NextPart(s, head, tail) ==
  CASE head = "Fragment" -> PushPart(s, Name("k"))
    [] head = "InvalidFragment" -> PathError(s, "InvalidIdentifier")
    [] head = "Integer" ->
         IF tail = "NoColon" THEN PushPart(s, Index(0)) ELSE SliceTail(s, Static(0), tail)
    [] head = "Colon" -> ToTail(s, tail)
    [] head = "LeftBrace" ->
         IF tail = "NoColon" THEN PushPart(s, DynamicKey(SomeExpr))
         ELSE SliceTail(s, Dynamic(SomeExpr), tail)
    [] head = "None" -> PathHardError(s, "MissingIdentifier")
    [] OTHER -> PathError(s, "InvalidIdentifier")

\* AccessPath::is_anonymous
is_anonymous(path) == path.path # <<>> /\ path.path[1].c = "AnonymousValue"

AnonValueAssignmentAllowed(path) == FALSE

\* "Don't allow setters directly on anonymous values"
AnonValueAssignment(path) == is_anonymous(path) /\ Len(path.path) = 1

\* the variable the paths are rooted in, the value of an anonymous root, and the values
\* the dynamic keys and bounds evaluate to
PathRoot == VList(<<VList(<<VInt(7)>>), VMap(<<VEntry("k", VInt(8))>>)>>)

PathKeys == {VInt(0), VStr("k")}

PathValues(path, key) ==
  [i \in 1..Len(dynamic_exprs(path)) |-> IF i = 1 /\ is_anonymous(path) THEN PathRoot ELSE key]

\* values that differ from one dynamic expression to the next: the first expressions
\* evaluate to the values of `turn`, the ones after them to `key`
PathTurns ==
  {<<>>, <<VInt(1), VStr("k"), VInt(0)>>, <<VInt(0), VInt(1), VInt(0)>>,
   <<VStr("x"), VInt(1), VInt(0)>>}

PathValuesOf(path, key, turn) ==
  [i \in 1..Len(dynamic_exprs(path)) |->
     IF i = 1 /\ is_anonymous(path) THEN PathRoot
     ELSE IF i <= Len(turn) THEN turn[i] ELSE PathValues(path, key)[i]]

\* the right-hand side of the setter
PathRhs == VList(<<VInt(9)>>)

\* the machine a getter or setter of the path runs on: one frame that defines x; on the
\* value stack the values `below` and above them the evaluated expressions of the path,
\* the first one on top
PathMachine(below, vals) ==
  [cs |-> <<[StackFrame(<<>>, TRUE, "Original", 0) EXCEPT
               !.locals = <<VarEntry("x", PathRoot, FALSE)>>]>>,
   vs |-> below \o Reverse(vals), bs |-> <<>>, at |-> <<DefaultAttrs>>, uw |-> <<>>, gl |-> Natives,
   hp |-> <<>>, err |-> "", ev |-> [op |-> "none"], ret |-> FALSE]

PathInit ==
  /\ pc = "init"
  /\ prog = 1
  /\ call_stack = <<>>
  /\ val_stack = <<>>
  /\ block_stack = <<>>
  /\ attr_stack = <<DefaultAttrs>>
  /\ unwinds = <<>>
  /\ globals = Natives
  /\ cells = <<>>
  /\ err = ""
  /\ tick0 = 0
  /\ parser = NoPath
  /\ step = "init"
  /\ ev = NoEvent

\* parse_access_path(allow_anonymous) is called: by a function definition and a named call
\* with false, by parse_accessor with true
PathBegin ==
  /\ parser.phase = "none"
  /\ \E caller \in {"FuncDef", "FuncCall", "parse_accessor"} :
       parser' = [NoPath EXCEPT !.phase = "first", !.caller = caller]
  /\ VMIdle

PathTails == {"NoColon", "Integer", "LeftBrace", "Terminator", "Weird", "None"}

\* one component is read; `tail` is looked at only by the forms that read on
Part(head, tails) ==
  /\ parser.phase \in {"first", "rest"}
  /\ Len(parser.idparts) + Len(parser.problems) < MaxPathLen
  /\ \E tail \in tails :
       parser' = IF parser.phase = "first" THEN FirstPart(parser, head, tail)
                 ELSE NextPart(parser, head, tail)
  /\ VMIdle

PathBang == Part("Bang", {"Terminator", "None"})

PathFragment == Part("Fragment", {"Terminator"})

PathInvalidFragment == Part("InvalidFragment", {"Terminator"})

PathInteger == Part("Integer", PathTails)

PathColon == Part("Colon", PathTails \ {"NoColon"})

PathLeftBrace == Part("LeftBrace", PathTails)

PathOther == Part("Other", {"Terminator"})

PathEndOfInput == Part("None", {"None"})

\* no slash follows: parse_access_path returns the path, and the caller goes on.  A getter
\* (`>`, `;`, `?`) and a named call read through the path.
PathGetter ==
  /\ parser.phase = "rest"
  /\ parser.caller \in {"FuncCall", "parse_accessor"}
  /\ parser' = [parser EXCEPT !.phase = "parsed", !.use = "get"]
  /\ VMIdle

\* A setter (`=`) and a function definition write through the path.
PathSetter ==
  /\ parser.phase = "rest"
  /\ parser.caller \in {"FuncDef", "parse_accessor"}
  /\ parser' = [(IF parser.caller = "parse_accessor"
                    /\ AnonValueAssignment(AccessPath(parser.idparts, Local))
                 THEN PathError(parser, "AnonValueAssignment") ELSE parser)
                EXCEPT !.phase = "parsed", !.use = "set"]
  /\ VMIdle

Compiled == parser.phase \in {"parsed", "ran"} /\ parser.problems = <<>>

\* the compiled getter runs: Intent::GetValue calls get_value
PathGet ==
  /\ parser.phase = "parsed" /\ Compiled /\ parser.use = "get"
  /\ \E key \in PathKeys, turn \in PathTurns :
       LET path == AccessPath(parser.idparts, Local)
           vals == PathValuesOf(path, key, turn)
           r    == get_value(PathMachine(<<>>, vals), path, Len(vals), TRUE,
                             parser.caller = "FuncCall")
       IN parser' = [parser EXCEPT
            !.phase = "ran", !.outcome = r.err, !.vals = vals, !.ran = r.ev]
  /\ VMIdle

\* the compiled setter runs: Intent::SetValue calls set_value
PathSet ==
  /\ parser.phase = "parsed" /\ Compiled /\ parser.use = "set"
  /\ \E key \in PathKeys, turn \in PathTurns :
       LET path == AccessPath(parser.idparts, Local)
           vals == PathValuesOf(path, key, turn)
           r    == set_value(PathMachine(<<PathRhs>>, vals), path,
                             IF parser.caller = "FuncDef" THEN "Define" ELSE "SetOnly",
                             Len(vals))
       IN parser' = [parser EXCEPT
            !.phase = "ran", !.outcome = r.err, !.vals = vals, !.ran = r.ev]
  /\ VMIdle

PathNext ==
  \/ PathBegin \/ PathBang \/ PathFragment \/ PathInvalidFragment \/ PathInteger \/ PathColon
  \/ PathLeftBrace \/ PathOther \/ PathEndOfInput \/ PathGetter \/ PathSetter \/ PathGet
  \/ PathSet

PathSpec == PathInit /\ [][PathNext]_vars

-----------------------------------------------------------------------------
(* func_return and interrupt_repeater on their own (mod.rs 1590-1667): each is applied *)
(* once to a call stack drawn from the stacks of up to MaxFrames frames.  The block    *)
(* stack holds one block state per element frame, a repeater for a RepeaterElement.    *)

\* the deepest call stack the two functions are applied to
MaxFrames == 3

ControlFlavors ==
  {"Original", "FunctionBody", "BlockElement", "RepeaterElement", "ArgumentExpression"}

ControlStacks == UNION {[1..n -> ControlFlavors] : n \in 0..MaxFrames}

ElementsBelow(flavors, i) == Cardinality({j \in 1..(i - 1) : IsElementFlavor(flavors[j])})

FramesOf(flavors) ==
  [i \in 1..Len(flavors) |->
     [StackFrame(<<>>, TRUE, flavors[i],
                 ElementsBelow(flavors, i) + (IF IsElementFlavor(flavors[i]) THEN 1 ELSE 0))
      EXCEPT !.out = <<VStr("o")>>]]

BlocksOf(flavors) ==
  LET elems == SelectSeq(flavors, IsElementFlavor)
  IN [i \in 1..Len(elems) |->
        BlockState([elems |-> <<Elem(<<>>)>>, id |-> i],
                   [DefaultAttrs EXCEPT !.reps = IF elems[i] = "RepeaterElement" THEN 2 ELSE 0],
                   "None")]

ControlInit ==
  /\ pc = "control"
  /\ prog = 1
  /\ \E flavors \in ControlStacks :
       /\ call_stack = FramesOf(flavors)
       /\ block_stack = BlocksOf(flavors)
  /\ val_stack = <<>>
  /\ attr_stack = <<DefaultAttrs>>
  /\ unwinds = <<>>
  /\ globals = Natives
  /\ cells = <<>>
  /\ err = ""
  /\ tick0 = 0
  /\ parser = NoParser
  /\ step = "init"
  /\ ev = NoEvent

ControlReturn ==
  /\ pc = "control"
  /\ \E ret_val \in {<<>>, <<VInt(1)>>} :
       Commit(func_return(Machine, ret_val), "func_return", "done")

ControlInterrupt ==
  /\ pc = "control"
  /\ \E break_val \in {<<>>, <<VInt(1)>>}, should_continue \in BOOLEAN :
       Commit(interrupt_repeater(Machine, break_val, should_continue),
              "interrupt_repeater", "done")

ControlNext == ControlReturn \/ ControlInterrupt

ControlSpec == ControlInit /\ [][ControlNext]_vars

-----------------------------------------------------------------------------
(* Arithmetic on values (value.rs 796-949).  Int is i64 in the source; the model keeps  *)
(* the same saturating, checked and plain operations at a width of IntBits bits, and   *)
(* the u32 of the pow exponent at ExpBits bits.  A Float is a whole number, or one of  *)
(* the marked results NaN, inf, a fraction, a power.  add, sub and mul return a value  *)
(* in the source; here every operator returns a result, whose error is a panic of the *)
(* plain i64 operators when there is one.                                             *)

\* bits of an Int of the model
IntBits == 8
\* bits of the exponent integer pow accepts
ExpBits == 4

I64_MAX == 2 ^ (IntBits - 1) - 1
I64_MIN == 0 - 2 ^ (IntBits - 1)

InI64(n) == I64_MIN <= n /\ n <= I64_MAX

\* i64::saturating_add / saturating_sub / saturating_mul / saturating_neg on the exact result
saturating(n) == IF n > I64_MAX THEN I64_MAX ELSE IF n < I64_MIN THEN I64_MIN ELSE n

wrapping(n) == ((n - I64_MIN) % 2 ^ IntBits) + I64_MIN

\* the plain operators of i64: on overflow they panic in a build with overflow checks
\* and wrap in a build without
plain(n, overflow_checks) ==
  IF InI64(n) THEN Res(VInt(n))
  ELSE IF overflow_checks THEN ResErr("PANIC: arithmetic overflow")
  ELSE Res(VInt(wrapping(n)))

\* i64 / and %: truncated towards zero; a zero divisor and i64::MIN / -1 panic in every build
TruncDiv(a, b) ==
  LET q == (IF a < 0 THEN 0 - a ELSE a) \div (IF b < 0 THEN 0 - b ELSE b)
  IN IF (a < 0) = (b < 0) THEN q ELSE 0 - q

int_div(a, b) ==
  IF b = 0 THEN ResErr("PANIC: attempt to divide by zero")
  ELSE IF a = I64_MIN /\ b = -1 THEN ResErr("PANIC: attempt to divide with overflow")
  ELSE Res(VInt(TruncDiv(a, b)))

int_rem(a, b) ==
  IF b = 0 THEN ResErr("PANIC: attempt to calculate the remainder with a divisor of zero")
  ELSE IF a = I64_MIN /\ b = -1
  THEN ResErr("PANIC: attempt to calculate the remainder with overflow")
  ELSE Res(VInt(a - b * TruncDiv(a, b)))

nan == [VFloat(0) EXCEPT !.s = "NaN"]

\* f64 division and remainder of whole numbers
float_div(a, b) ==
  IF b = 0
  THEN IF a = 0 THEN nan ELSE [VFloat(IF a < 0 THEN -1 ELSE 1) EXCEPT !.s = "inf"]
  ELSE IF a = b * TruncDiv(a, b) THEN VFloat(TruncDiv(a, b))
  ELSE [VFloat(TruncDiv(a, b)) EXCEPT !.s = "fraction"]

float_rem(a, b) == IF b = 0 THEN nan ELSE VFloat(a - b * TruncDiv(a, b))

\* f64::powf, kept as the term it was applied to
powf(a, b) == [VFloat(a) EXCEPT !.s = "powf", !.items = <<VInt(b)>>]

\* i64::checked_pow: None as soon as a product leaves the range
RECURSIVE CheckedPow(_, _, _)
CheckedPow(acc, base, exp) ==
  IF exp = 0 THEN Res(VInt(acc))
  ELSE IF ~InI64(acc * base) THEN ResErr("Overflow")
  ELSE CheckedPow(acc * base, base, exp - 1)

checked_pow(base, exp) ==
  IF base \in {0, 1} THEN Res(VInt(IF exp = 0 THEN 1 ELSE base))
  ELSE IF base = -1 THEN Res(VInt(IF exp % 2 = 0 THEN 1 ELSE -1))
  ELSE CheckedPow(1, base, exp)

\* str::repeat, kept as the string and the number of copies after the first
repeat(s, n) == IF n = 0 THEN VStr("") ELSE [VStr(s) EXCEPT !.n = n - 1]

IsInt(v) == v.t = "int"
IsFloat(v) == v.t = "float"
IsBoolean(v) == v.t = "bool"
IsEmpty(v) == v.t = "empty"
IsString(v) == v.t = "str"
IsList(v) == v.t = "list"

either_empty_both(lhs, rhs) == IsEmpty(lhs) /\ IsEmpty(rhs)

\* the first arm of Mul, Div and Rem: (Self::Empty, _) | (_, Self::Empty)
either_empty(lhs, rhs) == IsEmpty(lhs) \/ IsEmpty(rhs)

\* impl Neg for RantValue
neg(v) ==
  CASE IsInt(v) -> VInt(saturating(0 - v.n))
    [] IsFloat(v) -> VFloat(0 - v.n)
    [] IsBoolean(v) -> VInt(0 - v.n)
    [] OTHER -> v

\* impl Add for RantValue
add(lhs, rhs) ==
  CASE IsEmpty(lhs) /\ IsEmpty(rhs) -> Res(VEmpty)
    [] ~IsEmpty(lhs) /\ IsEmpty(rhs) -> Res(lhs)
    [] IsEmpty(lhs) /\ ~IsEmpty(rhs) -> Res(rhs)
    [] IsInt(lhs) /\ IsInt(rhs) -> Res(VInt(saturating(lhs.n + rhs.n)))
    [] IsInt(lhs) /\ IsFloat(rhs) -> Res(VFloat(lhs.n + rhs.n))
    [] IsInt(lhs) /\ IsBoolean(rhs) -> Res(VInt(saturating(lhs.n + rhs.n)))
    [] IsFloat(lhs) /\ IsFloat(rhs) -> Res(VFloat(lhs.n + rhs.n))
    [] IsFloat(lhs) /\ IsInt(rhs) -> Res(VFloat(lhs.n + rhs.n))
    [] IsFloat(lhs) /\ IsBoolean(rhs) -> Res(VFloat(lhs.n + rhs.n))
    [] IsString(lhs) /\ ~IsEmpty(rhs) -> Res(VStr(lhs.s \o to_string(rhs)))
    [] IsBoolean(lhs) /\ IsBoolean(rhs) -> Res(VInt(lhs.n + rhs.n))
    [] IsBoolean(lhs) /\ IsInt(rhs) -> Res(VInt(saturating(lhs.n + rhs.n)))
    [] IsBoolean(lhs) /\ IsFloat(rhs) -> Res(VFloat(lhs.n + rhs.n))
    [] IsList(lhs) /\ IsList(rhs) -> Res(VList(lhs.items \o rhs.items))
    [] OTHER -> Res(VStr(to_string(lhs) \o to_string(rhs)))

\* impl Sub for RantValue; Int - Boolean is the plain operator
sub(lhs, rhs, overflow_checks) ==
  CASE IsEmpty(lhs) /\ IsEmpty(rhs) -> Res(VEmpty)
    [] ~IsEmpty(lhs) /\ IsEmpty(rhs) -> Res(lhs)
    [] IsEmpty(lhs) /\ ~IsEmpty(rhs) -> Res(neg(rhs))
    [] IsInt(lhs) /\ IsInt(rhs) -> Res(VInt(saturating(lhs.n - rhs.n)))
    [] IsInt(lhs) /\ IsFloat(rhs) -> Res(VFloat(lhs.n - rhs.n))
    [] IsInt(lhs) /\ IsBoolean(rhs) -> plain(lhs.n - rhs.n, overflow_checks)
    [] IsFloat(lhs) /\ IsFloat(rhs) -> Res(VFloat(lhs.n - rhs.n))
    [] IsFloat(lhs) /\ IsInt(rhs) -> Res(VFloat(lhs.n - rhs.n))
    [] IsFloat(lhs) /\ IsBoolean(rhs) -> Res(VFloat(lhs.n - rhs.n))
    [] IsBoolean(lhs) /\ IsBoolean(rhs) -> Res(VInt(lhs.n - rhs.n))
    [] IsBoolean(lhs) /\ IsInt(rhs) -> Res(VInt(saturating(lhs.n - rhs.n)))
    [] IsBoolean(lhs) /\ IsFloat(rhs) -> Res(VFloat(lhs.n - rhs.n))
    [] OTHER -> Res(nan)

\* impl Mul for RantValue; Int * Boolean and Boolean * Int are the plain operator
mul(lhs, rhs, overflow_checks) ==
  CASE either_empty(lhs, rhs) -> Res(VEmpty)
    [] IsInt(lhs) /\ IsInt(rhs) -> Res(VInt(saturating(lhs.n * rhs.n)))
    [] IsInt(lhs) /\ IsFloat(rhs) -> Res(VFloat(lhs.n * rhs.n))
    [] IsInt(lhs) /\ IsBoolean(rhs) -> plain(lhs.n * rhs.n, overflow_checks)
    [] IsFloat(lhs) /\ IsFloat(rhs) -> Res(VFloat(lhs.n * rhs.n))
    [] IsFloat(lhs) /\ IsInt(rhs) -> Res(VFloat(lhs.n * rhs.n))
    [] IsFloat(lhs) /\ IsBoolean(rhs) -> Res(VFloat(lhs.n * rhs.n))
    [] IsBoolean(lhs) /\ IsBoolean(rhs) -> Res(VInt(lhs.n * rhs.n))
    [] IsBoolean(lhs) /\ IsInt(rhs) -> plain(lhs.n * rhs.n, overflow_checks)
    [] IsBoolean(lhs) /\ IsFloat(rhs) -> Res(VFloat(lhs.n * rhs.n))
    [] IsString(lhs) /\ IsInt(rhs) -> Res(repeat(lhs.s, IF rhs.n < 0 THEN 0 ELSE rhs.n))
    [] OTHER -> Res(nan)

IsZeroInt(rhs) == IsInt(rhs) /\ rhs.n = 0

\* the second arm of Div and Rem: (_, Self::Int(0)) | (_, Self::Boolean(false))
IsZero(rhs) == (IsInt(rhs) \/ IsBoolean(rhs)) /\ rhs.n = 0

\* impl Div for RantValue
div(lhs, rhs) ==
  CASE either_empty(lhs, rhs) -> Res(VEmpty)
    [] ~IsEmpty(lhs) /\ IsZero(rhs) -> ResErr("DivideByZero")
    [] IsInt(lhs) /\ IsInt(rhs) /\ ~IsZero(rhs) -> int_div(lhs.n, rhs.n)
    [] IsInt(lhs) /\ IsFloat(rhs) -> Res(float_div(lhs.n, rhs.n))
    [] IsInt(lhs) /\ IsBoolean(rhs) /\ ~IsZero(rhs) -> int_div(lhs.n, rhs.n)
    [] IsFloat(lhs) /\ IsFloat(rhs) -> Res(float_div(lhs.n, rhs.n))
    [] IsFloat(lhs) /\ IsInt(rhs) /\ ~IsZero(rhs) -> Res(float_div(lhs.n, rhs.n))
    [] IsFloat(lhs) /\ IsBoolean(rhs) /\ ~IsZero(rhs) -> Res(float_div(lhs.n, rhs.n))
    [] IsBoolean(lhs) /\ IsBoolean(rhs) /\ ~IsZero(rhs) -> int_div(lhs.n, rhs.n)
    [] IsBoolean(lhs) /\ IsInt(rhs) /\ ~IsZero(rhs) -> int_div(lhs.n, rhs.n)
    [] IsBoolean(lhs) /\ IsFloat(rhs) -> Res(float_div(lhs.n, rhs.n))
    [] OTHER -> Res(nan)

\* impl Rem for RantValue
rem(lhs, rhs) ==
  CASE either_empty(lhs, rhs) -> Res(VEmpty)
    [] ~IsEmpty(lhs) /\ IsZero(rhs) -> ResErr("DivideByZero")
    [] IsInt(lhs) /\ IsInt(rhs) /\ ~IsZero(rhs) -> int_rem(lhs.n, rhs.n)
    [] IsInt(lhs) /\ IsFloat(rhs) -> Res(float_rem(lhs.n, rhs.n))
    [] IsInt(lhs) /\ IsBoolean(rhs) /\ ~IsZero(rhs) -> int_rem(lhs.n, rhs.n)
    [] OTHER -> Res(nan)

\* RantValue::pow
pow(lhs, exponent) ==
  CASE IsInt(lhs) /\ IsInt(exponent) ->
         IF exponent.n >= 0
         THEN IF exponent.n >= 2 ^ ExpBits THEN ResErr("Overflow")
              ELSE checked_pow(lhs.n, exponent.n)
         ELSE Res(powf(lhs.n, exponent.n))
    [] IsInt(lhs) /\ IsFloat(exponent) -> Res(powf(lhs.n, exponent.n))
    [] IsFloat(lhs) /\ IsInt(exponent) -> Res(powf(lhs.n, exponent.n))
    [] IsFloat(lhs) /\ IsFloat(exponent) -> Res(powf(lhs.n, exponent.n))
    [] OTHER -> Res(VEmpty)

(* The operators on their own: one operator is applied once to a pair of operands drawn *)
(* from Operands, in a build with or without overflow checks.                          *)

Operands ==
  {VEmpty, VBool(TRUE), VBool(FALSE), VFloat(0), VFloat(2), VFloat(-3), VStr("a"),
   VList(<<VInt(1)>>)}
  \cup {VInt(n) : n \in {I64_MIN, I64_MIN + 1, -2, -1, 0, 1, 2, 3, 7, I64_MAX - 1, I64_MAX}}

NoCalc == [phase |-> "Operands", op |-> "", lhs |-> VEmpty, rhs |-> VEmpty,
           overflow_checks |-> FALSE, result |-> Res(VEmpty)]

CalcInit ==
  /\ pc = "init"
  /\ prog = 1
  /\ call_stack = <<>>
  /\ val_stack = <<>>
  /\ block_stack = <<>>
  /\ attr_stack = <<DefaultAttrs>>
  /\ unwinds = <<>>
  /\ globals = Natives
  /\ cells = <<>>
  /\ err = ""
  /\ tick0 = 0
  /\ step = "init"
  /\ ev = NoEvent
  /\ \E lhs \in Operands, rhs \in Operands, overflow_checks \in BOOLEAN :
       parser = [NoCalc EXCEPT !.lhs = lhs, !.rhs = rhs, !.overflow_checks = overflow_checks]

Calc(op, result) ==
  /\ parser.phase = "Operands"
  /\ parser' = [parser EXCEPT !.phase = "Done", !.op = op, !.result = result]
  /\ VMIdle

CalcAdd == Calc("add", add(parser.lhs, parser.rhs))
CalcSub == Calc("sub", sub(parser.lhs, parser.rhs, parser.overflow_checks))
CalcMul == Calc("mul", mul(parser.lhs, parser.rhs, parser.overflow_checks))
CalcDiv == Calc("div", div(parser.lhs, parser.rhs))
CalcRem == Calc("rem", rem(parser.lhs, parser.rhs))
CalcPow == Calc("pow", pow(parser.lhs, parser.rhs))

CalcNext == CalcAdd \/ CalcSub \/ CalcMul \/ CalcDiv \/ CalcRem \/ CalcPow

CalcSpec == CalcInit /\ [][CalcNext]_vars

-----------------------------------------------------------------------------
(* index_get, slice_get and slice_set on their own (value.rs 297-426): one of them is  *)
(* applied once to a value drawn from Indexed, with an index, a slice and a source     *)
(* value drawn from Indexes, Slices and SpliceSources.                                 *)

\* the longest list, string and range
MaxLen == 3

RECURSIVE StrOfLen(_)
StrOfLen(n) == IF n = 0 THEN "" ELSE StrOfLen(n - 1) \o "a"

Indexed ==
  {VList([i \in 1..n |-> VInt(10 + i)]) : n \in 0..MaxLen}
  \cup {VStr(StrOfLen(n)) : n \in 0..MaxLen}
  \cup {VRange([i \in 1..n |-> 20 + i]) : n \in 0..MaxLen}
  \cup {VInt(5), VEmpty, VMap(<<VEntry("k", VInt(1))>>)}

Indexes == (0 - MaxLen - 2)..(MaxLen + 2)

Slices ==
  {Slice("Full", 0, 0)}
  \cup {Slice("From", a, 0) : a \in Indexes}
  \cup {Slice("To", 0, b) : b \in Indexes}
  \cup {Slice("Between", a, b) : a \in Indexes, b \in Indexes}

SpliceSources == {VList(<<>>), VList(<<VInt(7), VInt(8)>>), VInt(7)}

NoIndexing == [phase |-> "Operands", op |-> "", v |-> VEmpty, index |-> 0,
               slice |-> Slice("Full", 0, 0), val |-> VEmpty, result |-> Res(VEmpty)]

IndexInit ==
  /\ pc = "init"
  /\ prog = 1
  /\ call_stack = <<>>
  /\ val_stack = <<>>
  /\ block_stack = <<>>
  /\ attr_stack = <<DefaultAttrs>>
  /\ unwinds = <<>>
  /\ globals = Natives
  /\ cells = <<>>
  /\ err = ""
  /\ tick0 = 0
  /\ step = "init"
  /\ ev = NoEvent
  /\ \E v \in Indexed : parser = [NoIndexing EXCEPT !.v = v]

IndexGet ==
  /\ parser.phase = "Operands"
  /\ \E index \in Indexes :
       parser' = [parser EXCEPT !.phase = "Done", !.op = "index_get", !.index = index,
                                !.result = index_get(parser.v, index)]
  /\ VMIdle

SliceGet ==
  /\ parser.phase = "Operands"
  /\ \E slice \in Slices :
       parser' = [parser EXCEPT !.phase = "Done", !.op = "slice_get", !.slice = slice,
                                !.result = slice_get(parser.v, slice)]
  /\ VMIdle

SliceSet ==
  /\ parser.phase = "Operands"
  /\ \E slice \in Slices, val \in SpliceSources :
       parser' = [parser EXCEPT !.phase = "Done", !.op = "slice_set", !.slice = slice,
                                !.val = val, !.result = slice_set(parser.v, slice, val)]
  /\ VMIdle

IndexNext == IndexGet \/ SliceGet \/ SliceSet

IndexSpec == IndexInit /\ [][IndexNext]_vars

-----------------------------------------------------------------------------
(* Properties *)

\* C1: whenever run returns Ok, the value stack held exactly one value, the program's
\* result, at the moment the call stack became empty.
C1_OneValueAtFinish == pc = "ok" => Len(ev.vals) = 1

\* C2: the call stack never holds more than MAX_STACK_SIZE frames; on a full stack each
\* checked push gives StackOverflow and pushes nothing, below that it pushes one frame;
\* the unchecked push of the root frame happens on an empty stack.
C2_CallStackBounded ==
  /\ Len(call_stack) <= MAX_STACK_SIZE
  /\ LET a == push_frame(Machine, <<>>, TRUE)
         b == push_frame_flavored(Machine, <<>>, TRUE, "FunctionBody")
         c == push_native_call_frame(Machine, [name |-> "rep", args |-> <<>>], TRUE, "NativeCall")
     IN IF Len(call_stack) >= MAX_STACK_SIZE
        THEN \A r \in {a, b, c} : r.err = "StackOverflow" /\ r.cs = call_stack
        ELSE \A r \in {a, b, c} : r.err = "" /\ Len(r.cs) = Len(call_stack) + 1
  /\ (pc = "init" => call_stack = <<>>)
  /\ (step = "run_inner" => Len(call_stack) = 1)

\* C2 witness: a push was refused on a full call stack
C2_FullStackRefused ==
  /\ Len(call_stack) = MAX_STACK_SIZE
  /\ err = "StackOverflow"
  /\ pc = "err"

\* C3: func_return pops the frames down to and including the nearest FunctionBody frame
\* and one block state per popped element frame, so that the block stack is as deep
\* afterwards as it was when that function body frame was pushed.
C3_ReturnRestoresBlockDepth ==
  ev.op = "func_return" =>
    /\ ev.popped[1].flavor = "FunctionBody"
    /\ \A j \in 2..Len(ev.popped) : ev.popped[j].flavor # "FunctionBody"
    /\ Len(block_stack) = ev.popped[1].bdepth

\* C4: interrupt_repeater pops the frames down to and including the nearest
\* RepeaterElement frame and the block states above that repeater's state, leaving that
\* state on top of the block stack, and on a break that repeater is the one stopped.
C4_InterruptLeavesItsRepeater ==
  ev.op = "interrupt_repeater" =>
    /\ ev.target.flavor = "RepeaterElement"
    /\ Len(block_stack) = ev.target.bdepth
    /\ block_stack # <<>>
    /\ is_repeater(Last(block_stack))
    /\ Last(block_stack).id = ev.blocks_before[ev.target.bdepth].id
    /\ (~ev.should_continue => Last(block_stack).stopped)
    /\ (ev.should_continue => ~Last(block_stack).stopped)

\* C5: unwind pops the latest unwind state and cuts the call, value, block and attribute
\* stacks back to the sizes it recorded, leaving what lies below untouched; a handler is
\* then called with exactly one argument, the error's message as a string; without a
\* handler the error is dropped and the run goes on at the surviving top frame.
C5_UnwindTruncates ==
  ev.op = "unwind" =>
    LET b == ev.before
        a == ev.after
        s == ev.state
        Cut(old, new, size) ==
          /\ Len(new) <= size
          /\ Len(new) = IF Len(old) < size THEN Len(old) ELSE size
          /\ \A j \in 1..Len(new) : new[j] = old[j]
    IN /\ s = b.uw[Len(b.uw)]
       /\ Len(a.uw) = Len(b.uw) - 1
       /\ \A j \in 1..Len(a.uw) : a.uw[j] = b.uw[j]
       /\ Cut(b.cs, a.cs, s.call_stack_size)
       /\ Cut(b.vs, a.vs, s.value_stack_size)
       /\ Cut(b.bs, a.bs, s.block_stack_size)
       /\ Cut(b.at, a.at, s.attr_stack_size)
       /\ (s.handler # <<>> /\ ev.e = "" =>
             /\ ev.called.op = "call_func"
             /\ ev.called.func = s.handler[1]
             /\ ev.called.args = <<VStr(ev.msg)>>)
       /\ (s.handler = <<>> =>
             /\ err = "" /\ pc = "run"
             /\ call_stack = a.cs /\ val_stack = a.vs
             /\ block_stack = a.bs /\ attr_stack = a.at)

\* C5 witness: a handler was called after an unwind that cut frames, values and block
\* states off the stacks
C5_UnwoundToHandler ==
  /\ ev.op = "unwind"
  /\ ev.state.handler # <<>>
  /\ ev.e = ""
  /\ Len(ev.before.cs) > ev.state.call_stack_size
  /\ Len(ev.before.vs) > ev.state.value_stack_size
  /\ Len(ev.before.bs) > ev.state.block_stack_size

\* C6: run returns an error only when no unwind state is registered; with a state
\* registered every error, one raised while calling an unwind handler included, takes
\* one state and the run goes on.
C6_ErrorSurfacesOnlyUnprotected == pc = "fail" => unwinds = <<>>

PushesOfStep ==
  pc \in {"intents", "seq"} =>
    /\ Len(call_stack') <= Len(call_stack) + 2
    /\ (Len(call_stack') = Len(call_stack) + 2 => step' = "BuildMap")
    /\ (Len(call_stack') > Len(call_stack) /\ pc' \in {"intents", "seq"} =>
          step' \in {"CheckBlock", "BuildWeightedBlock", "Return", "Continue", "Break"})

IsLiteral(expr) == Len(expr) = 1 /\ expr[1].k \in {"Integer", "Fragment"}
LitValue(expr)  == IF expr[1].k = "Integer" THEN VInt(expr[1].n) ELSE VStr(expr[1].s)

\* C8: the function target is evaluated first, the arguments after it from the last to
\* the first, each in a frame of its own; call_func gets the values in source order and
\* the function value comes off the value stack after all of them.
C8_ArgumentOrder ==
  /\ ev.op = "eval_arg" =>
       /\ ev.expr = ev.arg_exprs[Len(ev.arg_exprs) - ev.nth + 1].expr
       /\ Last(call_stack).seq = ev.expr
       /\ Last(call_stack).flavor = "ArgumentExpression"
  /\ ev.op = "invoke"
       /\ (\A j \in 1..Len(ev.arg_exprs) :
             ev.arg_exprs[j].spread_mode = "NoSpread" /\ IsLiteral(ev.arg_exprs[j].expr)) =>
       LET n   == Len(ev.arg_exprs)
           v   == ev.vals_before
           top == Len(ev.vals_before)
       IN /\ top > n
          /\ \A j \in 1..n : v[top - j + 1] = LitValue(ev.arg_exprs[j].expr)
          /\ ev.func = v[top - n]
          /\ ev.func.t = "func"
          /\ ev.args = [j \in 1..n |-> LitValue(ev.arg_exprs[j].expr)]
          /\ (ev.e = "" => Len(val_stack) = top - n - 1)

\* C8 witness: a function was called with two different literal arguments
C8_TwoArgumentsPassed ==
  /\ ev.op = "invoke"
  /\ ev.e = ""
  /\ Len(ev.arg_exprs) = 2
  /\ \A j \in 1..2 : IsLiteral(ev.arg_exprs[j].expr)
  /\ ev.args[1] # ev.args[2]

C10_AllDynamicValuesConsumed ==
  ev.op \in {"get_value", "set_value"} =>
    /\ ev.pushed = Len(dynamic_exprs(ev.path))
    /\ ev.popped = Len(dynamic_exprs(ev.path)) + (IF ev.op = "set_value" THEN 1 ELSE 0)
    /\ ev.used = Len(dynamic_exprs(ev.path))

\* C10 amended: the counts agree, and a walk that ends without an error has consumed
\* every popped value.
C10_DynamicCounts ==
  ev.op \in {"get_value", "set_value"} =>
    /\ ev.pushed = Len(dynamic_exprs(ev.path))
    /\ ev.popped = Len(dynamic_exprs(ev.path)) + (IF ev.op = "set_value" THEN 1 ELSE 0)
    /\ (ev.e = "" => ev.used = Len(dynamic_exprs(ev.path)))

\* C10 witness: a getter walked a path with two dynamic expressions to its end
C10_TwoKeysConsumed ==
  /\ ev.op = "get_value"
  /\ ev.e = ""
  /\ ev.pushed = 2
  /\ ev.used = 2


-----------------------------------------------------------------------------
(* Argument counts accepted by call_func *)

MaxParams == 2
MaxArgc   == 3

Varities == {"Required", "Optional", "VariadicStar", "VariadicPlus"}

\* parameter lists of up to MaxParams parameters, of every varity
Signatures ==
  UNION {[1..n -> Varities] : n \in 0..MaxParams}

ParamNames == <<"p1", "p2", "p3", "p4", "p5", "p6">>

SigParams(sig) == [i \in 1..Len(sig) |-> Param(ParamNames[i], sig[i])]

\* the number of leading parameters that are Required or VariadicPlus
LeadingRequired(params) ==
  CHOOSE n \in 0..Len(params) :
    /\ \A i \in 1..n : params[i].varity \in {"Required", "VariadicPlus"}
    /\ n = Len(params) \/ params[n + 1].varity \notin {"Required", "VariadicPlus"}

HasVariadic(params) ==
  \E i \in 1..Len(params) : params[i].varity \in {"VariadicStar", "VariadicPlus"}

Refused(params, argc) ==
  IF HasVariadic(params) THEN argc < LeadingRequired(params)
  ELSE argc < LeadingRequired(params) \/ argc > Len(params)

CallChecked(params, argc) ==
  LET body == <<RNop>>
      args == [i \in 1..argc |-> VInt(i)]
      r    == call_func(Machine, BuildFunction(params, body, <<>>), args, "Sink", FALSE)
  IN /\ (r.err = "ArgumentMismatch") <=> Refused(params, argc)
     /\ Refused(params, argc) => r.cs = call_stack
     /\ ~Refused(params, argc) =>
          IF Len(call_stack) < MAX_STACK_SIZE
          THEN /\ Ok(r)
               /\ Len(r.cs) = Len(call_stack) + 1
               /\ Last(r.cs).seq = body
               /\ Last(r.cs).flavor = "FunctionBody"
          ELSE r.err = "StackOverflow"

\* C11: call_func returns ArgumentMismatch exactly when argc is below the number of
\* leading Required / VariadicPlus parameters, or, for a function without a variadic
\* parameter, above the number of parameters; for every other argument count the call
\* goes on to push a frame for the function (a checked push: StackOverflow on a full
\* call stack).  The calls Invoke makes in the programs are refused in just those cases.
C11_ArgumentMismatch ==
  /\ call_stack # <<>> =>
       \A sig \in Signatures : \A argc \in 0..MaxArgc : CallChecked(SigParams(sig), argc)
  /\ ev.op = "invoke" =>
       (ev.e = "ArgumentMismatch" <=> Refused(ev.func.f.params, Len(ev.args)))

\* a call refused for its argument count, and a call of a two-parameter function accepted
C11_CallRefused ==
  /\ err = "ArgumentMismatch"
  /\ call_stack # <<>>


-----------------------------------------------------------------------------
(* Captured variables *)

\* the function value a FuncDef step left in its BuildDynamicSetter intent
DefinedFunc == Head(cur_frame(Machine).intents).val_source.val.f

\* the variable of the scope and the closure's variable hold one cell
SharesCell(captured) ==
  /\ captured.ref # 0
  /\ LocalVar(Machine, captured.name).ref = captured.ref

\* C12: every variable in a function's capture list is a by-reference cell shared by the
\* defining scope and every invocation: when the function value is created the scope's
\* variable and the captured variable hold the same cell; every call installs that very
\* cell as the callee's local; so a write inside the closure is read by the defining
\* scope (PCaptureWrite, PCaptureLambda), a later write of the defining scope is read inside the closure
\* (PCaptureRead), and a second call reads the first call's write (PCaptureCalls).
C12_CaptureByReference ==
  /\ (step = "FuncDef" /\ err = "") =>
       \A k \in 1..Len(DefinedFunc.captured_vars) : SharesCell(DefinedFunc.captured_vars[k])
  /\ (ev.op = "invoke" /\ ev.e = "") =>
       \A k \in 1..Len(ev.func.f.captured_vars) :
         /\ ev.func.f.captured_vars[k].ref # 0
         /\ Last(call_stack).locals[k] = ev.func.f.captured_vars[k]
  /\ (pc = "ok" /\ Programs[prog] = PCaptureWrite) => ev.vals = <<VCat(<<VEmpty, VInt(2)>>)>>
  /\ (pc = "ok" /\ Programs[prog] = PCaptureRead)  => ev.vals = <<VInt(3)>>
  /\ (pc = "ok" /\ Programs[prog] = PCaptureLambda) => ev.vals = <<VCat(<<VEmpty, VInt(4)>>)>>
  /\ (pc = "ok" /\ Programs[prog] = PCaptureCalls) => ev.vals = <<VCat(<<VInt(1), VInt(5)>>)>>

\* the closure is called a second time after its first call wrote the captured variable
C12_SecondCallSeesWrite ==
  /\ Programs[prog] = PCaptureCalls
  /\ ev.op = "invoke"
  /\ ev.e = ""
  /\ ev.func.f.captured_vars # <<>>
  /\ cells[ev.func.f.captured_vars[1].ref] = VInt(5)


-----------------------------------------------------------------------------
(* Pipe chains *)

\* b may be the state handled right after a in one chain
PipeFollows(a, b) ==
  CASE a.s = "EvaluatingFunc" ->
         b.s = "EvaluatingArgs" /\ b.k = a.k /\ b.pv = a.pv
    [] a.s = "EvaluatingArgs" ->
         b.s \in {"EvaluatingArgs", "PreCall", "PreTemporalCall"} /\ b.k = a.k /\ b.pv = a.pv
    [] a.s = "PreCall" ->
         b.s = "PostCall" /\ b.k = a.k
    [] a.s = "PreTemporalCall" ->
         b.s = "PostTemporalCall" /\ b.k = a.k
    [] a.s = "PostCall" ->
         b.s = "EvaluatingFunc" /\ b.k = a.k + 1 /\ b.pv = a.ret
    [] OTHER ->
         \/ b.s = "EvaluatingFunc" /\ b.k = a.k + 1 /\ b.pv = a.ret
         \/ b.s = "PreTemporalCall" /\ b.k = a.k /\ b.pv = a.pv

PipeTrailInOrder(trail) ==
  /\ trail[1].s = "EvaluatingFunc" /\ trail[1].k = 1 /\ trail[1].pv = <<>>
  /\ \A n \in 1..(Len(trail) - 1) : PipeFollows(trail[n], trail[n + 1])
  /\ \A n \in 1..Len(trail) :
       trail[n].s \in {"PostCall", "PostTemporalCall"} => trail[n].ret # <<>>

\* the frame pushed for a function expression or an argument sees the pipe value
PipeValueVisible(frame, pipeval) ==
  /\ HasVar(frame.locals, PIPE_VALUE_NAME)
  /\ VarOf(frame.locals, PIPE_VALUE_NAME).val = pipeval[1]

-----------------------------------------------------------------------------
(* Temporal spread *)

\* one of the temporally spread arguments is a collection of no elements
HasEmptySpread(temporal_state, args) ==
  \E j \in 1..Len(args) :
    /\ temporal_get(temporal_state, j - 1) >= 0
    /\ is_indexable(args[j])
    /\ value_len(args[j]) = 0

\* C15: a temporal spread in which one temporally spread argument has zero elements
\* makes no call of the function, in a temporal call (Invoke / CallTemporal) and in a
\* temporal step of a pipe chain, whatever the other temporal arguments are.
C15_EmptySpreadNoCall ==
  /\ ev.op = "temporal_call" => ~HasEmptySpread(ev.temporal_state, ev.args)
  /\ (ev.op = "pipe_step" /\ ev.s = "PreTemporalCall") =>
       ~HasEmptySpread(ev.state.temporal_state, ev.state.args)


-----------------------------------------------------------------------------
(* Function signatures *)

AllowedTransitions ==
  {<<"Required", "Required">>, <<"Required", "Optional">>, <<"Required", "VariadicStar">>,
   <<"Required", "VariadicPlus">>, <<"Optional", "Optional">>, <<"Optional", "VariadicStar">>}

VariadicAt(varities) == {i \in 1..Len(varities) : varities[i] \in {"VariadicStar", "VariadicPlus"}}

ParsedEvents(op) == {parser.log[i] : i \in {j \in 1..Len(parser.log) : parser.log[j].op = op}}

\* C20: a signature parse_func_params reports no error for has only allowed transitions
\* between adjacent parameters and at most one variadic parameter; so its variadic
\* parameter, if any, is the last one and VariadicPlus never follows an Optional.
C20_AcceptedSignatures ==
  \A e \in ParsedEvents("parse_func_params") :
    e.reported = <<>> =>
      LET v == e.varities IN
      /\ \A i \in 1..(Len(v) - 1) : <<v[i], v[i + 1]>> \in AllowedTransitions
      /\ Cardinality(VariadicAt(v)) <= 1
      /\ \A i \in VariadicAt(v) : i = Len(v)
      /\ \A i \in 2..Len(v) : v[i] = "VariadicPlus" => v[i - 1] # "Optional"

C20_VariadicLastAccepted ==
  \E e \in ParsedEvents("parse_func_params") :
    /\ e.varities = <<"Required", "Optional", "VariadicStar">>
    /\ e.reported = <<>>
    /\ parser.phase = "Ok"

-----------------------------------------------------------------------------
(* Constants in the variable tracker *)

\* the layer, counted from the bottom, a definition of the given kind goes to
TargetLayer(sm, kind) ==
  CASE kind.k = "Local"   -> Len(sm)
    [] kind.k = "Descope" -> IF Len(sm) - kind.n < 1 THEN 1 ELSE Len(sm) - kind.n
    [] OTHER              -> 1

HoldsConstant(layer, id) == \E k \in 1..Len(layer) : layer[k].id = id /\ layer[k].is_const

\* C18: a definition, of any access kind, that goes to a layer already holding a constant
\* of that name reports ConstantRedefinition; a definition that goes to a layer holding no
\* such constant (shadowing included) reports none.
C18_ConstantRedefinition ==
  \A e \in ParsedEvents("track_variable") :
    e.reported <=> HoldsConstant(e.before[TargetLayer(e.before, e.kind)], e.id)

\* what a lookup of the given kind finds in the variable stack: the topmost variable of the
\* name, skipping no layer (local), n layers (descope) or depth() layers (explicit global)
KnownAs(sm, path) ==
  get_parent(sm, path.var_name[1],
             CASE path.kind.k = "Local" -> 0 [] path.kind.k = "Descope" -> path.kind.n [] OTHER -> depth(sm))

\* <%x> or <$x> followed by <x = ..> nested n blocks deep
LocalSetterSource(is_const, n) ==
  <<SDef(Local, "x", is_const), Nest(SSet(Local, "x", SrcSeq(<<SFrag>>)), n)>>

Reported(problem) == \E i \in 1..Len(parser.problems) : parser.problems[i] = problem

-----------------------------------------------------------------------------
(* Scope layers and capture frames *)

\* C16: every scope layer pushed while parsing is popped again on every exit path, hard
\* errors included: each top-level item leaves the variable stack as deep as it found it,
\* and when parse() returns the stack is as deep as at entry.
C16_LayersBalanced ==
  /\ parser.phase = "items" => depth(parser.var_stack) = depth(EmptyScopeMap) + 1
  /\ parser.phase \in {"Ok", "Err"} => depth(parser.var_stack) = depth(EmptyScopeMap)

\* C17: every capture frame is popped by the capture_pass that pushed it and its set is the
\* capture_vars of the FuncDef or Lambda produced; when parse() returns, with or without
\* success, the capture stack is empty.
C17_CaptureFramesPopped ==
  /\ \A i \in 1..Len(parser.log) :
       /\ parser.log[i].op = "Lambda" =>
            parser.log[i - 1].op = "capture_pass"
            /\ parser.log[i - 1].popped = parser.log[i].capture_vars
       /\ parser.log[i].op = "FuncDef" =>
            parser.log[i - 2].op = "capture_pass"
            /\ parser.log[i - 2].popped = parser.log[i].capture_vars
  /\ parser.phase \in {"Ok", "Err"} => parser.capture_stack = <<>>

-----------------------------------------------------------------------------
(* The pipe value in the arguments of a chain *)

\* whether a source sequence reads the pipe value of the step it is written in: a pipe value
\* token anywhere in it, except in the later steps of a chain nested in it, which read the
\* nested chain's pipe value
RECURSIVE SeqReadsPipe(_)
ItemReadsPipe(item) ==
  CASE item.t = "Fragment"  -> FALSE
    [] item.t = "PipeValue" -> TRUE
    [] item.t = "Block"     -> \E k \in 1..Len(item.elems) : SeqReadsPipe(item.elems[k])
    [] item.t = "Accessor"  -> item.has_rhs /\ SeqReadsPipe(item.rhs)
    [] item.f = "call"      -> \/ item.steps[1].is_anonymous /\ SeqReadsPipe(item.steps[1].expr)
                               \/ \E j \in 1..Len(item.steps[1].args) : SeqReadsPipe(item.steps[1].args[j])
    [] OTHER                -> \/ SeqReadsPipe(item.body)
                               \/ \E j \in 1..Len(item.params) : SeqReadsPipe(item.params[j].default)

SeqReadsPipe(src) == \E k \in 1..Len(src.items) : ItemReadsPipe(src.items[k])

ArgsReadPipe(s) == \E j \in 1..Len(s.args) : SeqReadsPipe(s.args[j])

UserArgs(s) == [j \in 1..Len(s.args) |-> UserArg(s.args[j])]

\* the step got the pipe value as an extra first argument / got its own arguments only
PipeValueInserted(fcall) == fcall.arguments = <<PipeValueArg>> \o UserArgs(fcall.src)
NothingInserted(fcall) == fcall.arguments = UserArgs(fcall.src)

-----------------------------------------------------------------------------
(* The result of parse() *)

Returned == parser.phase \in {"Ok", "Err"}

-----------------------------------------------------------------------------
(* Modes and terminators of parse_sequence *)

\* the table of modes and terminators
ListedTerminators(mode) ==
  CASE mode = "BlockElement" -> {"VertBar", "Colon", "RightBrace"}
    [] mode = "FunctionArg" -> {"Semicolon", "PipeOp", "RightBracket"}
    [] mode = "FunctionBodyBlock" -> {"RightBrace"}
    [] mode = "DynamicKey" -> {"RightBrace"}
    [] mode = "AnonFunctionExpr" -> {"Colon", "RightBracket", "PipeOp"}
    [] mode = "VariableAssignment" -> {"RightAngle", "Semicolon"}
    [] mode = "AccessorFallbackValue" -> {"RightAngle", "Semicolon"}
    [] mode = "ParamDefaultValue" -> {"RightBracket", "Semicolon"}
    [] mode = "CollectionInit" -> {"Semicolon", "RightParen"}
    [] OTHER -> {}

\* the SequenceEndType that names `token` as the terminator of a sequence in `mode`
MatchingEndType(mode, token) ==
  CASE mode = "BlockElement" /\ token = "VertBar" -> "BlockDelim"
    [] mode = "BlockElement" /\ token = "Colon" -> "BlockAssocDelim"
    [] mode = "BlockElement" /\ token = "RightBrace" -> "BlockEnd"
    [] mode = "FunctionArg" /\ token = "Semicolon" -> "FunctionArgEndNext"
    [] mode = "FunctionArg" /\ token = "PipeOp" -> "FunctionArgEndToPipe"
    [] mode = "FunctionArg" /\ token = "RightBracket" -> "FunctionArgEndBreak"
    [] mode = "FunctionBodyBlock" /\ token = "RightBrace" -> "FunctionBodyEnd"
    [] mode = "DynamicKey" /\ token = "RightBrace" -> "DynamicKeyEnd"
    [] mode = "AnonFunctionExpr" /\ token = "Colon" -> "AnonFunctionExprToArgs"
    [] mode = "AnonFunctionExpr" /\ token = "RightBracket" -> "AnonFunctionExprNoArgs"
    [] mode = "AnonFunctionExpr" /\ token = "PipeOp" -> "AnonFunctionExprToPipe"
    [] mode = "VariableAssignment" /\ token = "RightAngle" -> "VariableAccessEnd"
    [] mode = "VariableAssignment" /\ token = "Semicolon" -> "VariableAssignDelim"
    [] mode = "AccessorFallbackValue" /\ token = "RightAngle" -> "AccessorFallbackValueToEnd"
    [] mode = "AccessorFallbackValue" /\ token = "Semicolon" -> "AccessorFallbackValueToDelim"
    [] mode = "ParamDefaultValue" /\ token = "RightBracket" -> "ParamDefaultValueSignatureEnd"
    [] mode = "ParamDefaultValue" /\ token = "Semicolon" -> "ParamDefaultValueSeparator"
    [] mode = "CollectionInit" /\ token = "Semicolon" -> "CollectionInitDelim"
    [] mode = "CollectionInit" /\ token = "RightParen" -> "CollectionInitEnd"
    [] OTHER -> "none"

LastToken == parser.tokens[Len(parser.tokens)]

TokenRead == parser.phase \in {"loop", "done"} /\ parser.tokens # <<>>

\* the sequence ended on the token just read exactly if the token is in `terminators`,
\* and then with the matching end_type; the end of input ends it with ProgramEnd; in
\* SingleItem mode the sequence ends after one item or at the end of input
EndsExactlyOn(terminators) ==
  TokenRead =>
    /\ LastToken = "EOF" => parser.phase = "done" /\ parser.end_type = "ProgramEnd"
    /\ LastToken # "EOF" /\ parser.mode # "SingleItem" =>
         /\ parser.phase = "done" <=> LastToken \in terminators
         /\ parser.phase = "done" => parser.end_type = MatchingEndType(parser.mode, LastToken)
    /\ LastToken # "EOF" /\ parser.mode = "SingleItem" /\ parser.phase = "done" =>
         parser.end_type = "SingleItemEnd"

-----------------------------------------------------------------------------
(* Access paths of programs that compile *)

\* the path is not empty, its root is a name, a dynamic key or an anonymous value, and an
\* anonymous value stands nowhere but at the root
WellFormedPath(idparts) ==
  /\ idparts # <<>>
  /\ idparts[1].c \in {"Name", "DynamicKey", "AnonymousValue"}
  /\ \A i \in 2..Len(idparts) : idparts[i].c # "AnonymousValue"

\* C23: in a program that compiles without error every access path is well formed and no
\* setter targets a path that is an anonymous value alone; when the getter or setter of
\* such a path runs, no unreachable!() arm of get_value or set_value is taken.
C23_CompiledPathsWellFormed ==
  Compiled =>
    /\ WellFormedPath(parser.idparts)
    /\ parser.use = "set" => parser.idparts # <<AnonymousValue(SomeExpr)>>
    /\ parser.phase = "ran" => parser.outcome # "PANIC"

\* a setter through an anonymous value, <!(..)/0 = ..>, compiled and ran
C23_AnonymousRootSet ==
  /\ parser.phase = "ran"
  /\ parser.use = "set"
  /\ parser.idparts = <<AnonymousValue(SomeExpr), Index(0)>>
  /\ parser.problems = <<>>
  /\ parser.outcome = ""

-----------------------------------------------------------------------------
(* Control flow without a frame to go to *)

NoFrameOf(flavor) == \A i \in 1..Len(call_stack) : call_stack[i].flavor # flavor

StacksKept ==
  /\ err' = "ControlFlowError"
  /\ call_stack' = call_stack
  /\ block_stack' = block_stack

\* C24: func_return with no FunctionBody frame on the call stack, and interrupt_repeater
\* with no RepeaterElement frame, return ControlFlowError and leave the call stack and
\* the block stack as they were: nothing is popped, no repeater is stopped.
C24_NoFrameNoChange ==
  [][/\ step' = "func_return" /\ NoFrameOf("FunctionBody") => StacksKept
     /\ step' = "interrupt_repeater" /\ NoFrameOf("RepeaterElement") => StacksKept]_vars

\* func_return failed two element frames deep inside a repeater: frames and block states
\* are still there, the repeater still runs
C24_ReturnFailedInBlocks ==
  /\ step = "func_return"
  /\ err = "ControlFlowError"
  /\ Len(call_stack) = 3
  /\ call_stack[2].flavor = "RepeaterElement" /\ call_stack[3].flavor = "BlockElement"
  /\ Len(block_stack) = 2
  /\ ~block_stack[1].stopped

-----------------------------------------------------------------------------
(* Arithmetic with Empty, with a zero divisor, and at the bounds of Int *)

Calculated(ops) == parser.phase = "Done" /\ parser.op \in ops

\* Empty is a unit of the operator: Empty op x is x (the negation of x under sub),
\* x op Empty is x, Empty op Empty is Empty
EmptyIsUnit ==
  /\ IsEmpty(parser.lhs) /\ IsEmpty(parser.rhs) => parser.result = Res(VEmpty)
  /\ IsEmpty(parser.lhs) /\ ~IsEmpty(parser.rhs) =>
       parser.result = Res(IF parser.op = "sub" THEN neg(parser.rhs) ELSE parser.rhs)
  /\ ~IsEmpty(parser.lhs) /\ IsEmpty(parser.rhs) => parser.result = Res(parser.lhs)

\* C25 as stated: for add, sub, mul, div and mod and every value x, Empty op x is x (the
\* negation of x for sub), x op Empty is x, and Empty op Empty is Empty.
C25_EmptyIsUnitOfEveryOperator ==
  Calculated({"add", "sub", "mul", "div", "rem"}) => EmptyIsUnit

\* C25: Empty is a unit of add and sub (Empty - x is the negation of x); mul, div and mod
\* with an Empty operand on either side give Empty.
C25_EmptyUnitOrAbsorbing ==
  /\ Calculated({"add", "sub"}) => EmptyIsUnit
  /\ Calculated({"mul", "div", "rem"}) /\ (IsEmpty(parser.lhs) \/ IsEmpty(parser.rhs)) =>
       parser.result = Res(VEmpty)

C25_EmptyTimesTwo ==
  /\ Calculated({"mul"})
  /\ parser.lhs = VEmpty /\ parser.rhs = VInt(2)
  /\ parser.result = Res(VEmpty)

ZeroDivisor(v) == v = VInt(0) \/ v = VBool(FALSE)

\* C26 as stated: div and mod return DivideByZero exactly when the right operand is Int 0
\* or Bool false, whatever the left operand.
C26_DivideByZeroIffZeroDivisor ==
  Calculated({"div", "rem"}) =>
    (parser.result.e = "DivideByZero" <=> ZeroDivisor(parser.rhs))

\* C26: div and mod return DivideByZero exactly when the right operand is Int 0 or Bool
\* false and the left operand is not Empty; Empty divided by zero is Empty.
C26_DivideByZeroUnlessEmpty ==
  Calculated({"div", "rem"}) =>
    /\ parser.result.e = "DivideByZero" <=> ZeroDivisor(parser.rhs) /\ ~IsEmpty(parser.lhs)
    /\ ZeroDivisor(parser.rhs) /\ IsEmpty(parser.lhs) => parser.result = Res(VEmpty)

C26_EmptyOverZero ==
  /\ Calculated({"div"})
  /\ parser.lhs = VEmpty /\ parser.rhs = VInt(0)
  /\ parser.result = Res(VEmpty)

IntOrBool(v) == IsInt(v) \/ IsBoolean(v)

Exact(op, a, b) == CASE op = "add" -> a + b [] op = "sub" -> a - b [] op = "mul" -> a * b

\* the magnitude of base^exp, capped above the range of Int
RECURSIVE Magnitude(_, _)
Magnitude(base, exp) ==
  IF exp = 0 THEN 1
  ELSE Min(2 ^ IntBits, (IF base < 0 THEN 0 - base ELSE base) * Magnitude(base, exp - 1))

PowFits(base, exp) ==
  IF base < 0 /\ exp % 2 = 1 THEN Magnitude(base, exp) <= 0 - I64_MIN
  ELSE Magnitude(base, exp) <= I64_MAX

\* C27: +, - and * on Int and Bool operands give the exact result saturated at the bounds
\* of Int, in every build (no wrap, no panic); integer pow with a non-negative exponent
\* returns Overflow exactly when the exponent does not fit the exponent type or the power
\* does not fit Int.
C27_IntResultsSaturate ==
  /\ Calculated({"add", "sub", "mul"}) /\ IntOrBool(parser.lhs) /\ IntOrBool(parser.rhs) =>
       parser.result = Res(VInt(saturating(Exact(parser.op, parser.lhs.n, parser.rhs.n))))
  /\ Calculated({"pow"}) /\ IsInt(parser.lhs) /\ IsInt(parser.rhs) /\ parser.rhs.n >= 0 =>
       /\ parser.result.e \in {"", "Overflow"}
       /\ parser.result.e = "Overflow" <=>
            parser.rhs.n >= 2 ^ ExpBits \/ ~PowFits(parser.lhs.n, parser.rhs.n)
       /\ parser.result.e = "" => IsInt(parser.result.v)

-----------------------------------------------------------------------------
(* Negative indices and slice bounds *)

Indexing(ops) == parser.phase = "Done" /\ parser.op \in ops

LengthOf(v) == IF v.t = "str" THEN Len(v.s) ELSE Len(v.items)

\* a negative index counts from the end
Resolved(v, i) == IF i < 0 THEN LengthOf(v) + i ELSE i

BoundIn(v, i) == 0 <= Resolved(v, i) /\ Resolved(v, i) <= LengthOf(v)

BoundsIn(v, slice) ==
  /\ slice.s \in {"From", "Between"} => BoundIn(v, slice.a)
  /\ slice.s \in {"To", "Between"} => BoundIn(v, slice.b)

OutOfRange(result, e) ==
  result.e = e /\ "kind" \in DOMAIN result /\ result.kind = "OutOfRange"

\* C28: on a list, string or range of length len, index_get resolves a negative index i to
\* len + i and succeeds iff the resolved index is in [0, len), with the element at the
\* resolved index for a list and a range, and OutOfRange otherwise; a slice bound is
\* resolved the same way and is accepted iff the resolved bound is in [0, len].
C28_NegativeIndexResolution ==
  /\ Indexing({"index_get"}) /\ parser.v.t \in {"list", "str", "range"} =>
       LET at == Resolved(parser.v, parser.index)
       IN /\ parser.result.e = "" <=> 0 <= at /\ at < LengthOf(parser.v)
          /\ parser.result.e # "" => OutOfRange(parser.result, "IndexError")
          /\ parser.result.e = "" /\ parser.v.t \in {"list", "range"} =>
               parser.result.v = parser.v.items[at + 1]
  /\ Indexing({"slice_get", "slice_set"}) /\ parser.v.t \in {"list", "str", "range"} =>
       /\ OutOfRange(parser.result, "SliceError") <=> ~BoundsIn(parser.v, parser.slice)
       /\ parser.op = "slice_get" /\ parser.v.t = "list" =>
            (parser.result.e = "" <=> BoundsIn(parser.v, parser.slice))
       /\ \A i \in {parser.slice.a, parser.slice.b} :
            get_ubound(parser.v, i) = IF BoundIn(parser.v, i) THEN Resolved(parser.v, i) ELSE -1

\* index -1 of a list of three elements is its last element
C28_LastElement ==
  /\ Indexing({"index_get"})
  /\ parser.v.t = "list" /\ Len(parser.v.items) = 3
  /\ parser.index = -1
  /\ parser.result = Res(parser.v.items[3])

\* C29: for slice_get and slice_set on a list, Between(a, b) with both bounds in range has
\* its negative bounds resolved and the resolved pair put in order: it selects
\* list[min..max], as Between(b, a) does, and does not fail when a > b.
C29_BetweenIsOrdered ==
  Indexing({"slice_get", "slice_set"}) /\ parser.v.t = "list" /\ parser.slice.s = "Between"
    /\ BoundsIn(parser.v, parser.slice) =>
      LET a == Resolved(parser.v, parser.slice.a)
          b == Resolved(parser.v, parser.slice.b)
          lo == IF a < b THEN a ELSE b
          hi == IF a < b THEN b ELSE a
          items == parser.v.items
          swapped == Slice("Between", parser.slice.b, parser.slice.a)
      IN /\ parser.op = "slice_get" =>
              /\ parser.result = Res(VList(SubSeq(items, lo + 1, hi)))
              /\ parser.result = slice_get(parser.v, swapped)
         /\ parser.op = "slice_set" /\ parser.val.t = "list" =>
              /\ parser.result = Res(VList(SubSeq(items, 1, lo) \o parser.val.items
                                           \o SubSeq(items, hi + 1, Len(items))))
              /\ parser.result = slice_set(parser.v, swapped, parser.val)

\* Between(-1, 1) on a list of three elements: the bounds resolve to 2 and 1, and the slice
\* is the element between 1 and 2
C29_ReversedBounds ==
  /\ Indexing({"slice_get"})
  /\ parser.v.t = "list" /\ Len(parser.v.items) = 3
  /\ parser.slice = Slice("Between", -1, 1)
  /\ parser.result = Res(VList(<<parser.v.items[2]>>))

-----------------------------------------------------------------------------
(* Unwind states after a try *)

FramesOnStack(unwind_state, cs) == unwind_state.call_stack_size <= Len(cs)

\* C30: when a DropStaleUnwinds intent has run, no unwind state is left whose recorded
\* call-stack size is greater than the length of the call stack, and every unwind state
\* whose frames are all still on the call stack has been kept.
C30_StaleUnwindsDropped ==
  [][step' = "DropStaleUnwinds" =>
       /\ \A i \in 1..Len(unwinds') : FramesOnStack(unwinds'[i], call_stack')
       /\ unwinds' = SelectSeq(unwinds, LAMBDA u : FramesOnStack(u, call_stack'))]_vars

-----------------------------------------------------------------------------
(* Block states and CheckBlock *)

BlockSteps == {"Block", "CheckBlock", "BuildWeightedBlock"}

\* the step ran check_block and next_element handed out an element or a separator
Issued ==
  /\ step' \in BlockSteps
  /\ err' = ""
  /\ \/ Len(block_stack') > Len(block_stack)
     \/ Len(block_stack') = Len(block_stack) /\ block_stack' # block_stack

\* the step ran check_block and next_element reported that the block is done
Completed ==
  /\ step' = "CheckBlock"
  /\ err' = ""
  /\ block_stack # <<>>
  /\ NextAction(Last(block_stack), 1) = "None"

\* the frame that ran the step, after it
OwningFrame == call_stack'[Len(call_stack)]

\* CheckBlock is queued in the owning frame, behind the intent that prints the element
CheckQueued ==
  LET q == OwningFrame.intents
      printing == Last(block_stack').flag # "Sink"
      pushed == Len(call_stack') > Len(call_stack)
  IN /\ q # <<>>
     /\ IF printing /\ pushed
        THEN Len(q) >= 2 /\ q[1].k = "PrintLast" /\ q[2].k = "CheckBlock"
        ELSE \/ q[1].k = "CheckBlock"
             \/ Len(q) >= 2 /\ q[1].k = "Call" /\ q[2].k = "CheckBlock"

\* C31: after each element, piped element or separator a CheckBlock runs in the owning
\* frame, behind the print of the element's result and before the frame's next sequence
\* element; when next_element reports completion the block's state is popped, once, and
\* the block stack is as deep as before the block started; until then it is not popped.
C31_BlockStatePoppedOnce ==
  [][/\ Issued => CheckQueued
     /\ Completed => /\ block_stack' = Front(block_stack)
                     /\ Len(block_stack') = Last(call_stack).bdepth
     /\ step' = "CheckBlock" /\ err' = "" /\ ~Completed =>
          Len(block_stack') = Len(block_stack)
     /\ step' = "intents finished" =>
          \A i \in 1..Len(Last(call_stack').intents) :
            Last(call_stack').intents[i].k # "CheckBlock"]_vars

-----------------------------------------------------------------------------
(* Default arguments *)

\* the parameter the j-th pending default of a CreateDefaultArgs intent belongs to
DefaultIndex(i, j) == i.default_arg_exprs[j][2]
DefaultParam(i, j) == i.context.params[DefaultIndex(i, j)]

\* a frame waiting on its defaults: the parameters bound in it are a supplied prefix, the
\* variadic parameter and the defaults evaluated so far, and the pending defaults are the
\* defaulted parameters after the supplied prefix, in parameter order
DefaultsPending(frame) ==
  LET i == Head(frame.intents)
      params == i.context.params
      exprs == i.default_arg_exprs
  IN /\ frame.pos = 0
     /\ \A j \in 1..Len(frame.intents) : j > 1 => frame.intents[j].k # "CreateDefaultArgs"
     /\ \A j, k \in 1..Len(exprs) : j < k => DefaultIndex(i, j) < DefaultIndex(i, k)
     /\ \E supplied \in 0..Len(params) :
          /\ \A p \in 1..Len(params) :
               HasVar(frame.locals, params[p].name) <=>
                 \/ p <= supplied
                 \/ IsVariadicVarity(params[p].varity)
                 \/ \E j \in 1..(i.eval_index - 1) : DefaultIndex(i, j) = p
          /\ {DefaultIndex(i, j) : j \in 1..Len(exprs)} =
               {p \in (supplied + 1)..Len(params) :
                  params[p].has_default /\ ~IsVariadicVarity(params[p].varity)}

DefaultsStep == AtIntent("CreateDefaultArgs") /\ step' = "CreateDefaultArgs" /\ err' = ""

\* C32: defaults of omitted optional parameters are evaluated one at a time in parameter
\* order, each in an ArgumentExpression frame on top of the callee's frame, and bound as a
\* const local of the callee before the next one is evaluated; the body starts only after
\* all are bound; supplied arguments are not replaced and an omitted optional without a
\* default stays undefined
C32_DefaultsInOrder ==
  [][/\ \A n \in 1..Len(call_stack') :
          (/\ err' = ""
           /\ call_stack'[n].intents # <<>>
           /\ \E j \in 1..Len(call_stack'[n].intents) :
                call_stack'[n].intents[j].k = "CreateDefaultArgs")
          => /\ Head(call_stack'[n].intents).k = "CreateDefaultArgs"
             /\ DefaultsPending(call_stack'[n])
     /\ DefaultsStep =>
          LET i == Intent
              n == Len(call_stack)
              callee == call_stack[n]
              after == call_stack'[n]
              exprs == i.default_arg_exprs
          IN /\ Len(call_stack') >= n
             /\ after.pos = 0
             /\ IF i.eval_index > 0
                THEN /\ after.locals = Append(callee.locals,
                                              VarEntry(DefaultParam(i, i.eval_index).name,
                                                       Last(val_stack), TRUE))
                     /\ val_stack' = Front(val_stack)
                     /\ ~HasVar(callee.locals, DefaultParam(i, i.eval_index).name)
                ELSE after.locals = callee.locals /\ val_stack' = val_stack
             /\ IF i.eval_index < Len(exprs)
                THEN /\ Len(call_stack') = n + 1
                     /\ call_stack'[n + 1].flavor = "ArgumentExpression"
                     /\ call_stack'[n + 1].seq = exprs[i.eval_index + 1][1]
                     /\ call_stack'[n + 1].pos = 0
                     /\ after.intents = <<[i EXCEPT !.eval_index = @ + 1]>> \o Tail(callee.intents)
                     /\ pc' = "run"
                ELSE /\ Len(call_stack') = n
                     /\ after.intents = Tail(callee.intents)
                     /\ \A j \in 1..Len(exprs) : HasVar(after.locals, DefaultParam(i, j).name)
                     /\ \A p \in 1..Len(i.context.params) :
                          (/\ ~i.context.params[p].has_default
                           /\ ~HasVar(callee.locals, i.context.params[p].name))
                          => ~HasVar(after.locals, i.context.params[p].name)]_vars

\* the last default has been bound: a is the supplied argument, b and c are their
\* defaults (c read b), d is undefined
C32_DefaultsBound ==
  /\ step = "CreateDefaultArgs" /\ err = "" /\ call_stack # <<>>
  /\ Programs[prog] = PDefaultsMixed
  /\ LET f == Last(call_stack)
     IN /\ f.intents = <<>> /\ f.pos = 0
        /\ HasVar(f.locals, "a") /\ VarOf(f.locals, "a").val = VInt(1)
        /\ HasVar(f.locals, "b") /\ VarOf(f.locals, "b").val = VInt(4)
        /\ VarOf(f.locals, "b").const
        /\ HasVar(f.locals, "c") /\ VarOf(f.locals, "c").val = VInt(4)
        /\ ~HasVar(f.locals, "d")

-----------------------------------------------------------------------------
(* Spread arguments on their own: the argument list of one call is drawn as spread  *)
(* operators with the values the argument expressions evaluate to; it is parsed,    *)
(* invoked, and called temporally until no CallTemporal intent is queued.           *)

MaxSpread == 2

SpreadTokens ==
  {[t |-> "None", label |-> ""], [t |-> "Star", label |-> ""], [t |-> "Temporal", label |-> ""],
   [t |-> "TemporalLabeled", label |-> "a"], [t |-> "TemporalLabeled", label |-> "b"]}

SpreadValues ==
  {VInt(7), VList(<<>>), VList(<<VInt(8)>>), VList(<<VInt(1), VInt(2)>>),
   VList(<<VList(<<VInt(1), VInt(2)>>), VList(<<VInt(3)>>)>>)}

SpreadSources ==
  UNION {[1..n -> [token : SpreadTokens, value : SpreadValues]] : n \in 1..MaxSpread}

\* the argument loop of parse_func_access: "Check for spread operators";
\* temporal_index_labels is the map from label strings to temporal indices, as pairs
RECURSIVE ParseSpreads(_, _, _, _, _)
ParseSpreads(source, i, temporal_index_labels, cur_temporal_index, func_args) ==
  IF i > Len(source) THEN func_args
  ELSE LET token == source[i].token
           known == {e \in temporal_index_labels : e[1] = token.label}
       IN CASE token.t = "Star" ->
                 ParseSpreads(source, i + 1, temporal_index_labels, cur_temporal_index,
                              Append(func_args, ArgParametric(<<>>)))
            [] token.t = "Temporal" ->
                 ParseSpreads(source, i + 1, temporal_index_labels, cur_temporal_index + 1,
                              Append(func_args, ArgTemporal(<<>>, cur_temporal_index)))
            [] token.t = "TemporalLabeled" ->
                 IF known # {}
                 THEN ParseSpreads(source, i + 1, temporal_index_labels, cur_temporal_index,
                                   Append(func_args, ArgTemporal(<<>>, (CHOOSE e \in known : TRUE)[2])))
                 ELSE ParseSpreads(source, i + 1,
                                   temporal_index_labels \cup {<<token.label, cur_temporal_index>>},
                                   cur_temporal_index + 1,
                                   Append(func_args, ArgTemporal(<<>>, cur_temporal_index)))
            [] OTHER ->
                 ParseSpreads(source, i + 1, temporal_index_labels, cur_temporal_index,
                              Append(func_args, Arg(<<>>)))

\* a function taking any number of arguments
Callee == BuildFunction(<<Param("a", "VariadicStar")>>, <<>>, <<>>)

\* the calling frame with the function and the argument values as Invoke finds them
\* once every argument expression has been evaluated: e(n-1) first, e0 on top
Evaluated(values, intents) ==
  [Machine EXCEPT !.cs = <<[StackFrame(<<>>, TRUE, "Original", 0) EXCEPT !.intents = intents]>>,
                  !.vs = <<Callee>> \o Reverse(values)]

QueuedTemporal(m) ==
  SelectSeq(m.cs[1].intents, LAMBDA i : i.k = "CallTemporal")

NoSpread == [phase |-> "Source", source |-> <<>>, arg_exprs |-> <<>>, is_temporal |-> FALSE,
             args |-> <<>>, queued |-> <<>>, sizes |-> <<>>, calls |-> <<>>]

SpreadInit ==
  /\ pc = "init"
  /\ prog = 1
  /\ call_stack = <<>>
  /\ val_stack = <<>>
  /\ block_stack = <<>>
  /\ attr_stack = <<DefaultAttrs>>
  /\ unwinds = <<>>
  /\ globals = Natives
  /\ cells = <<>>
  /\ err = ""
  /\ tick0 = 0
  /\ step = "init"
  /\ ev = NoEvent
  /\ \E source \in SpreadSources : parser = [NoSpread EXCEPT !.source = source]

\* the parser reads the argument list
SpreadParse ==
  /\ parser.phase = "Source"
  /\ LET func_args == ParseSpreads(parser.source, 1, {}, 0, <<>>)
     IN parser' = [parser EXCEPT !.phase = "Parsed", !.arg_exprs = func_args,
                                 !.is_temporal = \E i \in 1..Len(func_args) :
                                                   func_args[i].spread_mode = "Temporal"]
  /\ VMIdle

\* Invoke with every argument evaluated: pops the arguments and the function, then calls
\* the function or queues CallTemporal
SpreadInvoke ==
  /\ parser.phase = "Parsed"
  /\ LET values == [i \in 1..Len(parser.source) |-> parser.source[i].value]
         r == invoke(Evaluated(values, <<>>),
                     [k |-> "Invoke", arg_exprs |-> parser.arg_exprs,
                      arg_eval_count |-> Len(parser.arg_exprs),
                      is_temporal |-> parser.is_temporal, flag |-> "None"])
         args == PopArgs(Evaluated(values, <<>>), parser.arg_exprs, 1, <<>>).args
         counters == TemporalSpreadState(parser.arg_exprs, args).counters
     IN parser' =
          IF r.err # "" THEN [parser EXCEPT !.phase = r.err]
          ELSE IF parser.is_temporal
          THEN LET queued == QueuedTemporal(r)
               IN [parser EXCEPT !.phase = IF queued = <<>> THEN "Done" ELSE "Calling",
                                 !.queued = queued,
                                 !.sizes = [c \in 1..Len(counters) |-> counters[c].n],
                                 !.args = args]
          ELSE [parser EXCEPT !.phase = "Done", !.args = args,
                              !.calls = <<[targs |-> r.ev.args, index |-> <<>>]>>]
  /\ VMIdle

\* CallTemporal: one call of the function, and the intent again if increment says so
SpreadCall ==
  /\ parser.phase = "Calling"
  /\ LET i == parser.queued[1]
         r == call_temporal(Evaluated(<<>>, <<>>), i)
         queued == QueuedTemporal(r)
         index == [c \in 1..Len(i.temporal_state.counters) |-> i.temporal_state.counters[c].c]
     IN parser' =
          IF r.err # "" THEN [parser EXCEPT !.phase = r.err]
          ELSE [parser EXCEPT !.phase = IF queued = <<>> THEN "Done" ELSE "Calling",
                              !.queued = queued,
                              !.calls = Append(@, [targs |-> r.ev.targs, index |-> index])]
  /\ VMIdle

SpreadNext == SpreadParse \/ SpreadInvoke \/ SpreadCall

SpreadSpec == SpreadInit /\ [][SpreadNext]_vars

-----------------------------------------------------------------------------
(* Temporal calls *)

RECURSIVE ProductOf(_, _)
ProductOf(sizes, k) == IF k = 0 THEN 1 ELSE sizes[k] * ProductOf(sizes, k - 1)

\* the value counter c has in call j (counted from 0) when the first counter varies fastest
CounterAt(j, c) == (j \div ProductOf(parser.sizes, c - 1)) % parser.sizes[c]

AllPositive ==
  /\ parser.is_temporal
  /\ parser.sizes # <<>>
  /\ \A c \in 1..Len(parser.sizes) : parser.sizes[c] > 0

TemporalAt(a) == a <= Len(parser.arg_exprs) /\ parser.arg_exprs[a].spread_mode = "Temporal"

\* the indexable arguments that carry the label of counter c
Carrying(c) ==
  {a \in 1..Len(parser.args) :
     TemporalAt(a) /\ parser.arg_exprs[a].label = c - 1 /\ parser.args[a].t = "list"}

SpreadAt(i) == parser.source[i].token.t \in {"Temporal", "TemporalLabeled"}

SameLabel(i, j) ==
  \/ i = j
  \/ /\ parser.source[i].token.t = "TemporalLabeled"
     /\ parser.source[i].token = parser.source[j].token

\* C33: with counters of sizes n1..nk, all positive, the function is called n1*...*nk times
\* and then no more; call j uses the j-th combination of counter values with the first
\* counter varying fastest, arguments sharing a label are indexed by the same counter, and
\* a counter's size is the least length of the indexable arguments carrying its label;
\* the parser numbers labels 0, 1, ... in order of first appearance, two arguments
\* having the same index exactly when they carry the same label
C33_TemporalCombinations ==
  /\ (parser.phase \in {"Calling", "Done"} /\ AllPositive) =>
       /\ Len(parser.calls) <= ProductOf(parser.sizes, Len(parser.sizes))
       /\ parser.phase = "Done" <=> Len(parser.calls) = ProductOf(parser.sizes, Len(parser.sizes))
       /\ \A j \in 1..Len(parser.calls) :
            /\ parser.calls[j].index = [c \in 1..Len(parser.sizes) |-> CounterAt(j - 1, c)]
            /\ Len(parser.calls[j].targs) = Len(parser.args)
            /\ \A a \in 1..Len(parser.args) :
                 parser.calls[j].targs[a] =
                   IF TemporalAt(a) /\ parser.args[a].t = "list"
                   THEN parser.args[a].items[parser.calls[j].index[parser.arg_exprs[a].label + 1] + 1]
                   ELSE parser.args[a]
       /\ \A c \in 1..Len(parser.sizes) :
            /\ Carrying(c) # {}
            /\ \A a \in Carrying(c) : parser.sizes[c] <= Len(parser.args[a].items)
            /\ \E a \in Carrying(c) : parser.sizes[c] = Len(parser.args[a].items)
  /\ parser.phase # "Source" =>
       /\ Len(parser.arg_exprs) = Len(parser.source)
       /\ \A i \in 1..Len(parser.source) :
            parser.arg_exprs[i].spread_mode = "Temporal" <=> SpreadAt(i)
       /\ \A i, j \in 1..Len(parser.source) :
            (SpreadAt(i) /\ SpreadAt(j)) =>
              (parser.arg_exprs[i].label = parser.arg_exprs[j].label <=> SameLabel(i, j))
       /\ \A i \in 1..Len(parser.source) :
            (SpreadAt(i) /\ \A j \in 1..(i - 1) : ~(SpreadAt(j) /\ SameLabel(i, j))) =>
              parser.arg_exprs[i].label =
                Cardinality({parser.arg_exprs[j].label : j \in {k \in 1..(i - 1) : SpreadAt(k)}})

\* two counters of size 2 have gone through their four combinations
C33_FourCalls ==
  /\ parser.phase = "Done"
  /\ AllPositive
  /\ parser.sizes = <<2, 2>>
  /\ Len(parser.calls) = 4

-----------------------------------------------------------------------------
(* Spread alignment *)

\* the number of argument values the expressions before position i contribute
RECURSIVE ValuesBefore(_)
ValuesBefore(i) ==
  IF i <= 1 THEN 0
  ELSE ValuesBefore(i - 1) +
       IF parser.source[i - 1].token.t = "Star" /\ parser.source[i - 1].value.t = "list"
       THEN Len(parser.source[i - 1].value.items) ELSE 1

FirstOfLabel(i) == \A j \in 1..(i - 1) : ~(SpreadAt(j) /\ SameLabel(i, j))

\* C38: each temporally-spread argument is sized and indexed by the value of its own
\* argument expression, whatever a parametric spread before it expanded to, and building
\* the state never reads past the end of the argument values
C38_SpreadAligned ==
  /\ parser.phase # "PANIC"
  /\ (parser.phase \in {"Calling", "Done"} /\ parser.is_temporal) =>
       \A i \in 1..Len(parser.source) :
         SpreadAt(i) =>
           LET own == parser.source[i].value
               c == parser.arg_exprs[i].label + 1
           IN /\ c <= Len(parser.sizes)
              /\ own.t = "list" => parser.sizes[c] <= Len(own.items)
              /\ FirstOfLabel(i) => parser.sizes[c] <= (IF own.t = "list" THEN Len(own.items) ELSE 0)
              /\ (\A j \in 1..Len(parser.source) : (SpreadAt(j) /\ SameLabel(i, j)) => j = i)
                   => parser.sizes[c] = (IF own.t = "list" THEN Len(own.items) ELSE 0)
              /\ \A j \in 1..Len(parser.calls) :
                   parser.calls[j].targs[ValuesBefore(i) + 1] =
                     IF own.t = "list" /\ parser.calls[j].index[c] < Len(own.items)
                     THEN own.items[parser.calls[j].index[c] + 1]
                     ELSE own

-----------------------------------------------------------------------------
(* Capture sets *)

\* the identifier an access adds to the capture set of the innermost capture frame
Captured(e) ==
  IF e.captures_before = <<>> THEN {}
  ELSE e.captures[Len(e.captures)].captures
         \ e.captures_before[Len(e.captures_before)].captures

CaptureHeight(e) == e.captures_before[Len(e.captures_before)].height

\* every identifier of a popped capture set was added by an access through a local path
\* read before the pop, or is the pipe value, defined in an enclosing scope
CapturesAccessed ==
  \A i \in 1..Len(parser.log) :
    parser.log[i].op = "capture_pass" =>
      \A id \in parser.log[i].popped :
        \/ /\ id = PIPE_VALUE_NAME
           /\ LayerOf(parser.log[i].outer, id, 0) \in 1..parser.log[i].capture_height
        \/ \E j \in 1..(i - 1) :
             /\ parser.log[j].op = "track_variable_access"
             /\ parser.log[j].path.kind.k = "Local"
             /\ id \in Captured(parser.log[j])

\* C34 as stated: an identifier is captured only if it is accessed through a local path (or
\* as the pipe value) inside the function and is defined in a scope layer below the depth
\* of the capture frame; parameters, variables of the function body and identifiers
\* defined in no enclosing scope are never captured
C34_CapturedDefinedBelow ==
  /\ CapturesAccessed
  /\ \A e \in ParsedEvents("track_variable_access") :
       \A id \in Captured(e) :
         /\ e.path.kind.k = "Local"
         /\ e.path.var_name = <<id>>
         /\ LayerOf(e.before, id, 0) \in 1..CaptureHeight(e)

\* C34, amended: an identifier is captured only if it is accessed through a local path (or
\* as the pipe value) inside the function and the topmost layer defining it, if any, lies
\* below the depth of the capture frame; parameters and variables of the function body
\* are never captured, an identifier defined in no scope is
C34_CapturedNotOwn ==
  /\ CapturesAccessed
  /\ \A e \in ParsedEvents("track_variable_access") :
       /\ \A id \in Captured(e) :
            /\ e.path.kind.k = "Local"
            /\ e.path.var_name = <<id>>
            /\ LayerOf(e.before, id, 0) \in 0..CaptureHeight(e)
       /\ (/\ e.captures_before # <<>>
           /\ e.path.var_name # <<>>
           /\ e.path.kind.k = "Local"
           /\ LayerOf(e.before, e.path.var_name[1], 0) = 0)
          => e.path.var_name[1] \in e.captures[Len(e.captures)].captures

\* a function body has read an identifier that no scope defines, and the identifier is in
\* the capture set popped for the function
C34_UndefinedCaptured ==
  \E i \in 1..Len(parser.log) :
    /\ parser.log[i].op = "capture_pass"
    /\ \E j \in 1..(i - 1) :
         /\ parser.log[j].op = "track_variable_access"
         /\ LayerOf(parser.log[j].before, parser.log[j].path.var_name[1], 0) = 0
         /\ parser.log[j].path.var_name[1] \in parser.log[i].popped
         /\ Captured(parser.log[j]) = {parser.log[j].path.var_name[1]}

\* the pop of the capture frame of depth `height` that follows event j
PopAfter(j, height) ==
  {k \in (j + 1)..Len(parser.log) :
     /\ parser.log[k].op = "capture_pass"
     /\ parser.log[k].capture_height = height
     /\ \A l \in (j + 1)..(k - 1) :
          ~(parser.log[l].op = "capture_pass" /\ parser.log[l].capture_height = height)}

\* C40: a variable defined outside a function f and read by a function g defined inside f
\* is in the capture set of f as well as in that of g
C40_OuterFunctionCaptures ==
  \A j \in 1..Len(parser.log) :
    LET e == parser.log[j] IN
    (/\ e.op = "track_variable_access"
     /\ Len(e.captures_before) >= 2
     /\ e.path.var_name # <<>>
     /\ e.path.var_name[1] \in e.captures[Len(e.captures)].captures
     /\ LayerOf(e.before, e.path.var_name[1], 0)
          \in 1..e.captures_before[Len(e.captures_before) - 1].height)
    => /\ \A k \in PopAfter(j, CaptureHeight(e)) : e.path.var_name[1] \in parser.log[k].popped
       /\ \A k \in PopAfter(j, e.captures_before[Len(e.captures_before) - 1].height) :
            e.path.var_name[1] \in parser.log[k].popped

-----------------------------------------------------------------------------
(* Getter fallbacks *)

\* the result of the get_value the GetValue intent at hand calls
Getting ==
  get_value(Taken, Intent.path, Intent.dynamic_key_count, Intent.override_print,
            Intent.prefer_function)

GetterFailed ==
  /\ AtIntent("GetValue")
  /\ step' = "GetValue"
  /\ Getting.err \notin {"", "PANIC"}

\* the dynamic-key values are gone, nothing else was taken from or left on the value stack
KeysRemoved ==
  /\ Intent.dynamic_key_count <= Len(val_stack)
  /\ val_stack' = SubSeq(val_stack, 1, Len(val_stack) - Intent.dynamic_key_count)

\* the fallback runs in a frame of its own on top of the getter's frame; its output is
\* pushed when the frame is done, and a PrintLast queued in the getter's frame writes it
\* to that frame's output unless override_print is set
FallbackPushed ==
  /\ Len(call_stack') = Len(call_stack) + 1
  /\ Last(call_stack') = StackFrame(Intent.fallback[1], TRUE, "Original", Len(block_stack))
  /\ call_stack'[Len(call_stack)] =
       [Last(call_stack) EXCEPT
          !.intents = (IF Intent.override_print THEN <<>> ELSE <<[k |-> "PrintLast"]>>) \o Tail(@)]
  /\ \A n \in 1..(Len(call_stack) - 1) : call_stack'[n] = call_stack[n]
  /\ pc' = "run"

\* the fallback's result is what the run prints in the getter's place
FallbackDelivered ==
  (pc = "ok" /\ Programs[prog] = PFallback) => ev.vals = <<VCat(<<VStr("f"), VStr("z")>>)>>

\* C35 as stated: a failed get_value with a fallback raises no error, the dynamic-key
\* values are off the value stack and the fallback runs in the getter's place; without a
\* fallback the error is raised as it is
C35_FallbackNoError ==
  [][GetterFailed =>
       IF Intent.fallback # <<>>
       THEN err' = "" /\ KeysRemoved /\ FallbackPushed
       ELSE err' = Getting.err]_vars
  /\ [](FallbackDelivered)

\* C35, amended: a failed get_value with a fallback raises no error of its own, but pushing
\* the fallback's frame on a full call stack raises StackOverflow
C35_FallbackUnlessOverflow ==
  [][GetterFailed =>
       IF Intent.fallback # <<>>
       THEN /\ KeysRemoved
            /\ IF Len(call_stack) < MAX_STACK_SIZE
               THEN err' = "" /\ FallbackPushed
               ELSE err' = "StackOverflow"
       ELSE err' = Getting.err]_vars
  /\ [](FallbackDelivered)

\* a getter with two dynamic keys has failed and its fallback is about to run
C35_FallbackRuns ==
  /\ step = "GetValue" /\ err = "" /\ pc = "run"
  /\ Programs[prog] = PDynamicFail
  /\ Last(call_stack).seq = <<RFrag("f")>>
  /\ val_stack = <<>>

-----------------------------------------------------------------------------
(* Rejected calls *)

PrintLasts(frame) == Len(SelectSeq(frame.intents, LAMBDA i : i.k = "PrintLast"))

\* the step called call_func and call_func returned ArgumentMismatch, or StackOverflow
\* from the push of the callee's frame
Rejected ==
  \/ err' = "ArgumentMismatch"
  \/ /\ err' = "StackOverflow"
     /\ \/ step' \in {"Call", "CallTemporal"}
        \/ /\ step' = "Invoke" /\ AtIntent("Invoke")
           /\ Intent.arg_eval_count = Len(Intent.arg_exprs)

\* C36: a call that call_func rejects pushes no frame and leaves no PrintLast intent of
\* its own in the calling frame
C36_RejectedCallLeavesNoTrace ==
  [][Rejected =>
       /\ Len(call_stack') <= Len(call_stack)
       /\ call_stack' # <<>> =>
            PrintLasts(Last(call_stack')) <= PrintLasts(call_stack[Len(call_stack')])]_vars

-----------------------------------------------------------------------------
(* Sinked pipe chains *)

\* the last step of a pipe chain has returned and no temporal iteration is left
PipeEnds ==
  /\ AtIntent("InvokePipeStep")
  /\ step' = "InvokePipeStep"
  /\ err' = ""
  /\ Intent.state.s \in {"PostCall", "PostTemporalCall"}
  /\ Intent.step_index = Len(Intent.steps)
  /\ Len(call_stack') = Len(call_stack)

\* C37: a piped call with the Sink flag writes nothing to the output of its frame; one
\* without Sink writes the last step's result
C37_SinkedPipeWritesNothing ==
  [][PipeEnds =>
       IF Intent.flag = "Sink"
       THEN Last(call_stack').out = Last(call_stack).out
       ELSE Last(call_stack').out = cur_frame(write_value(Machine, Last(val_stack))).out]_vars
-----------------------------------------------------------------------------
(* Dynamic path components (mod.rs 1133-1325, lang.rs 116-140, 275-293)                *)

\* how many dynamic expressions a component has: one for a dynamic key or an anonymous
\* root, one for each dynamic bound of a slice
DynamicCount(comp) ==
  CASE comp.c \in {"DynamicKey", "AnonymousValue"} -> 1
    [] comp.c = "Slice" ->
         (IF comp.s \in {"From", "Between"} /\ comp.a.dyn THEN 1 ELSE 0)
         + (IF comp.s \in {"To", "Between"} /\ comp.b.dyn THEN 1 ELSE 0)
    [] OTHER -> 0

\* the place, counted in source order, of the first dynamic expression of component j
RECURSIVE OwnPlace(_, _)
OwnPlace(comps, j) ==
  IF j = 1 THEN 1 ELSE OwnPlace(comps, j - 1) + DynamicCount(comps[j - 1])

\* every dynamic slice bound of the path evaluated to an integer
BoundsAreInts(comps, vals) ==
  \A j \in 1..Len(comps) :
    comps[j].c = "Slice" =>
      \A d \in 0..(DynamicCount(comps[j]) - 1) : vals[OwnPlace(comps, j) + d].t = "int"

\* component j with the values of its own expressions written in its place: a key becomes
\* an index or a name, a bound a static bound (from before to), and an anonymous root the
\* variable that holds its value
OwnStatic(comps, vals, j) ==
  LET comp == comps[j]
      at   == OwnPlace(comps, j)
      from_dyn == comp.s \in {"From", "Between"} /\ comp.a.dyn
      to_dyn   == comp.s \in {"To", "Between"} /\ comp.b.dyn
  IN CASE comp.c = "AnonymousValue" -> Name("x")
       [] comp.c = "DynamicKey" ->
            IF j > 1 /\ vals[at].t = "int" THEN Index(vals[at].n)
            ELSE Name(to_string(vals[at]))
       [] comp.c = "Slice" ->
            SliceExpr(comp.s,
                      IF from_dyn THEN Static(vals[at].n) ELSE comp.a,
                      IF to_dyn THEN Static(vals[IF from_dyn THEN at + 1 ELSE at].n)
                      ELSE comp.b)
       [] OTHER -> comp

OwnPath(path, vals) ==
  AccessPath([j \in 1..Len(path.path) |-> OwnStatic(path.path, vals, j)], path.kind)

RanPath == AccessPath(parser.idparts, Local)

\* a getter or setter ran on a path whose dynamic expressions gave the values parser.vals,
\* the value of an anonymous root being the value of x
RanDynamic(use) ==
  /\ parser.phase = "ran" /\ parser.use = use
  /\ parser.vals # <<>>
  /\ BoundsAreInts(RanPath.path, parser.vals)

\* what the getter does on the path with every value in its own place
OwnGet ==
  get_value(PathMachine(<<>>, <<>>), OwnPath(RanPath, parser.vals), 0, TRUE,
            parser.caller = "FuncCall").ev

\* what the setter does on the path with every value in its own place
OwnSet ==
  set_value(PathMachine(<<PathRhs>>, <<>>), OwnPath(RanPath, parser.vals),
            IF parser.caller = "FuncDef" THEN "Define" ELSE "SetOnly", 0).ev

\* a key taken from a name and the same key taken from a value are one key
SameKey(k1, k2) ==
  /\ (k1.k \in {"KeyRef", "KeyString"}) = (k2.k \in {"KeyRef", "KeyString"})
  /\ k1.k \in {"KeyRef", "KeyString"} \/ k1.k = k2.k
  /\ k1.i = k2.i /\ k1.s = k2.s /\ k1.slice = k2.slice

\* C39: in get_value and set_value the k-th dynamic component of a path, counted in source
\* order with the bounds of a dynamic slice counted from before to, receives the value of
\* its own expression: the getter reads what it reads from the path with every value
\* written in its own place, the setter writes to the target and key of that path, and the
\* value the setter writes is the value of the right-hand side.
C39_OwnValues ==
  /\ RanDynamic("get") =>
       /\ parser.ran.e = OwnGet.e
       /\ parser.ran.e = "" => parser.ran.result = OwnGet.result
       /\ parser.ran.keys = parser.vals
  /\ RanDynamic("set") =>
       /\ parser.ran.value = PathRhs
       /\ parser.ran.keys = parser.vals
       /\ parser.ran.e = OwnSet.e
       /\ parser.ran.e = "" =>
            /\ SameKey(parser.ran.key, OwnSet.key)
            /\ parser.ran.target = OwnSet.target

\* a getter read through two dynamic keys of different values, and a setter wrote through
\* a slice with two dynamic bounds of different values
C39_TwoKeysRead ==
  /\ RanDynamic("get") /\ parser.ran.e = ""
  /\ Len(parser.vals) >= 2 /\ parser.vals[1] # parser.vals[2]
  /\ \A j \in 1..Len(RanPath.path) : RanPath.path[j].c = "DynamicKey"

C39_TwoBoundsWritten ==
  /\ RanDynamic("set") /\ parser.ran.e = ""
  /\ \E j \in 1..Len(RanPath.path) :
       /\ DynamicCount(RanPath.path[j]) = 2
       /\ parser.vals[OwnPlace(RanPath.path, j)] # parser.vals[OwnPlace(RanPath.path, j) + 1]
=============================================================================
